---- MODULE Spec2Model ----
(***************************************************************************)
(* A model of the PyFITS diff engine (lib/pyfits/diff.py): the comparators *)
(* FITSDiff, HDUDiff, HeaderDiff, ImageDataDiff, RawDataDiff and           *)
(* TableDataDiff.  A comparator runs its comparison when it is built, so   *)
(* one comparison is one step: inputs and configuration are chosen in the  *)
(* initial state, the constructor's step stores the diff object in         *)
(* `result`, and the `identical` property and the boolean conversion are   *)
(* further steps that store what they return in `ret`.                     *)
(*                                                                         *)
(* Python values are modelled as follows.  Tuples and lists are sequences, *)
(* dicts are functions, attributes are record fields.  A floating point    *)
(* number is modelled by the integer or the fraction [num, den] it equals; *)
(* the comparisons of the code are evaluated exactly (IEEE rounding is     *)
(* monotone, so an exact comparison x > y agrees with the rounded one      *)
(* whenever the two sides are representable, which the sampled values      *)
(* are).  An n-dimensional array is its dtype kind, its shape and its      *)
(* elements in row-major order.                                            *)
(***************************************************************************)
EXTENDS Integers, Sequences, FiniteSets, TLC

VARIABLES
    cls,     \* the comparator class being instantiated
    a,       \* self.a: the first object compared (StreamingHDU: the file)
    b,       \* self.b: the second object compared (StreamingHDU: the header)
    cfg,     \* the keyword arguments given to the constructor
    result,  \* the diff object once constructed (Unbuilt before)
    ret,     \* what the last call on the diff object returned
    pc       \* "new" before the constructor has run, "built" after

vars == <<cls, a, b, cfg, result, ret, pc>>

(***************************************************************************)
(* Bounds of the model.                                                    *)
(***************************************************************************)
\* Largest number of elements of a one-dimensional array given to a data
\* diff.
MaxLen == 2
\* The caps (numdiffs) tried are -1..MaxCap.
MaxCap == 2
\* Largest number of rows of a table.
MaxRows == 2

(***************************************************************************)
(* Numbers.                                                                *)
(***************************************************************************)
Rat(n, d) == [num |-> n, den |-> d]

Zero == Rat(0, 1)

Abs(x) == IF x < 0 THEN -x ELSE x

Min(x, y) == IF x < y THEN x ELSE y

\* r == 0.0 for a fraction r.
RatIsZero(r) == r.num = 0

\* float(n) / float(d) as the fraction it equals.
FloatDiv(n, d) == Rat(n, d)

(***************************************************************************)
(* numpy arrays and the numpy functions the code calls.                    *)
(***************************************************************************)
RECURSIVE Prod(_)
Prod(s) == IF s = <<>> THEN 1 ELSE Head(s) * Prod(Tail(s))

Array(dtype, shape, flat) == [dtype |-> dtype, shape |-> shape, flat |-> flat]

\* len(arr.flat)
FlatLen(arr) == Len(arr.flat)

\* The index tuple (0-based) of the element at 0-based row-major position p.
Unravel(p, shape) ==
    [d \in 1..Len(shape) |->
        (p \div Prod(SubSeq(shape, d + 1, Len(shape)))) % shape[d]]

\* The 0-based row-major position of the element at index tuple idx.
RECURSIVE Ravel(_, _)
Ravel(idx, shape) ==
    IF idx = <<>> THEN 0
    ELSE Head(idx) * Prod(Tail(shape)) + Ravel(Tail(idx), Tail(shape))

\* arr[idx] for an index tuple idx.
GetItem(arr, idx) == arr.flat[Ravel(idx, arr.shape) + 1]

\* The 0-based positions of the true elements of a flat mask, ascending.
RECURSIVE TruePositions(_, _)
TruePositions(mask, p) ==
    IF p > Len(mask) THEN <<>>
    ELSE (IF mask[p] THEN <<p - 1>> ELSE <<>>) \o TruePositions(mask, p + 1)

\* np.where(mask): one index array per dimension, the true positions in
\* row-major order.
np_where(mask, shape) ==
    LET pos == TruePositions(mask, 1)
    IN  [d \in 1..Len(shape) |->
            [k \in 1..Len(pos) |-> Unravel(pos[k], shape)[d]]]

\* np.issubdtype(arr.dtype, float)
IsFloat(arr) == arr.dtype = "float"

\* np.issubdtype(arr.dtype, complex)
IsComplex(arr) == arr.dtype = "complex"

\* izip(*diffs): the index tuples, one per position found.
izip(diffs) ==
    [k \in 1..Len(diffs[1]) |-> [d \in 1..Len(diffs) |-> diffs[d][k]]]

\* islice(s, 0, n) for n >= 0.
islice(s, n) == SubSeq(s, 1, Min(n, Len(s)))

(***************************************************************************)
(* where_not_allclose                                                      *)
(***************************************************************************)
\* Mutant: the tolerance is subtracted from the threshold.
NotClose_Minus(x, y, rtol, atol) ==
    Abs(x - y) * (atol.den * rtol.den)
        > atol.num * rtol.den - rtol.num * Abs(y) * atol.den

\* Mutant: the tolerance is taken relative to the first operand.
NotClose_RelativeToA(x, y, rtol, atol) ==
    Abs(x - y) * (atol.den * rtol.den)
        > atol.num * rtol.den + rtol.num * Abs(x) * atol.den

\* |x - y| > atol + rtol * |y|, with atol and rtol fractions.
NotClose(x, y, rtol, atol) ==
    Abs(x - y) * (atol.den * rtol.den)
        > atol.num * rtol.den + rtol.num * Abs(y) * atol.den

where_not_allclose(x, y, rtol, atol) ==
    IF RatIsZero(atol) /\ RatIsZero(rtol)
    THEN np_where([p \in 1..Len(x.flat) |-> x.flat[p] # y.flat[p]], x.shape)
    ELSE np_where([p \in 1..Len(x.flat) |->
                      NotClose(x.flat[p], y.flat[p], rtol, atol)],
                  x.shape)

(***************************************************************************)
(* _BaseDiff: the truth value of an attribute, identical, __nonzero__      *)
(***************************************************************************)
\* The object that stands for Python's None.
None == [cls |-> "None"]

\* The value of `result` before the constructor has run.
Unbuilt == [cls |-> "Unbuilt"]

\* The value of `ret` before any call has returned.
NoRet == [op |-> "none", value |-> FALSE]

\* The names of the attributes that start with 'diff_', by the kind of
\* value the constructors store in them.
SequenceAttrs ==
    {"diff_dimensions", "diff_pixels", "diff_bytes",
     "diff_column_count", "diff_columns", "diff_column_names", "diff_values",
     "diff_keyword_count", "diff_keyword_positions", "diff_keywords",
     "diff_extnames", "diff_extvers", "diff_extension_types",
     "diff_hdu_count", "diff_hdus"}

DictAttrs ==
    {"diff_duplicate_keywords", "diff_keyword_values", "diff_keyword_comments"}

ObjectAttrs == {"diff_headers", "diff_data"}

\* [attr for attr in self.__dict__ if attr.startswith('diff_')]
DiffAttrs(self) ==
    DOMAIN self \cap (SequenceAttrs \cup DictAttrs \cup ObjectAttrs
                      \cup {"diff_total", "diff_ratio"})

RECURSIVE identical(_), __nonzero__(_), bool(_, _)

\* Mutant: the boolean conversion the docstring describes.
nonzero_AsDocumented(self) == identical(self)

\* _BaseDiff.__nonzero__
__nonzero__(self) == ~identical(self)

\* bool(getattr(self, attr)): a tuple, list or dict is true when it is not
\* empty, a number when it is not zero, None is false and a nested diff
\* object answers with its __nonzero__.
bool(self, attr) ==
    CASE attr \in SequenceAttrs -> Len(self[attr]) > 0
      [] attr \in DictAttrs -> DOMAIN self[attr] # {}
      [] attr = "diff_total" -> self[attr] # 0
      [] attr = "diff_ratio" -> ~RatIsZero(self[attr])
      [] attr \in ObjectAttrs -> self[attr].cls # "None" /\ __nonzero__(self[attr])

\* _BaseDiff.identical
identical(self) == ~(\E attr \in DiffAttrs(self) : bool(self, attr))

(***************************************************************************)
(* ImageDataDiff                                                           *)
(***************************************************************************)
\* ImageDataDiff.__init__ up to the call of _diff.
ImageDataDiff_init(numdiffs, tolerance) ==
    [cls |-> "ImageDataDiff",
     numdiffs |-> numdiffs,
     tolerance |-> tolerance,
     diff_dimensions |-> <<>>,
     diff_pixels |-> <<>>,
     diff_ratio |-> Zero,
     diff_total |-> 0]

\* Mutant: the configured tolerance is used whatever the element types.
ImageDataDiff_tolerance_AsConfigured(self, x, y) == self.tolerance

\* The tolerance _diff passes to where_not_allclose: the configured one is
\* ignored when neither array is floating point or complex.
ImageDataDiff_tolerance(self, x, y) ==
    IF ~((IsFloat(x) \/ IsComplex(x)) \/ (IsFloat(y) \/ IsComplex(y)))
    THEN Zero ELSE self.tolerance

\* The number of differences _diff keeps: all of them for a negative numdiffs.
ImageDataDiff_numdiffs(self) ==
    IF self.numdiffs < 0 THEN self.diff_total ELSE self.numdiffs

\* Mutant: the slice starts at the second difference.
ImageDataDiff_pixels_SkipFirst(x, y, diffs, numdiffs) ==
    LET idxs == SubSeq(izip(diffs), 2, Min(numdiffs + 1, Len(diffs[1])))
    IN  [k \in 1..Len(idxs) |->
            <<idxs[k], <<GetItem(x, idxs[k]), GetItem(y, idxs[k])>>>>]

\* [(idx, (self.a[idx], self.b[idx])) for idx in islice(izip(*diffs), 0, numdiffs)]
ImageDataDiff_pixels(x, y, diffs, numdiffs) ==
    LET idxs == islice(izip(diffs), numdiffs)
    IN  [k \in 1..Len(idxs) |->
            <<idxs[k], <<GetItem(x, idxs[k]), GetItem(y, idxs[k])>>>>]

\* ImageDataDiff._diff for arrays of the same shape.
ImageDataDiff_compare(self, x, y) ==
    LET diffs == where_not_allclose(x, y, ImageDataDiff_tolerance(self, x, y), Zero)
        counted == [self EXCEPT !.diff_total = Len(diffs[1])]
    IN  IF counted.diff_total = 0
        THEN counted
        ELSE [counted EXCEPT
                !.diff_pixels =
                    ImageDataDiff_pixels(x, y, diffs, ImageDataDiff_numdiffs(counted)),
                !.diff_ratio = FloatDiv(counted.diff_total, FlatLen(x))]

\* Mutant: a shape mismatch ends the comparison without being recorded.
ImageDataDiff_diff_NoDimensions(self, x, y) ==
    IF x.shape # y.shape
    THEN self
    ELSE ImageDataDiff_compare(self, x, y)

\* ImageDataDiff._diff on the object self with self.a = x and self.b = y.
ImageDataDiff_diff(self, x, y) ==
    IF x.shape # y.shape
    THEN [self EXCEPT !.diff_dimensions = <<x.shape, y.shape>>]
    ELSE ImageDataDiff_compare(self, x, y)

\* ImageDataDiff(a, b, numdiffs=..., tolerance=...)
ImageDataDiff(x, y, numdiffs, tolerance) ==
    ImageDataDiff_diff(ImageDataDiff_init(numdiffs, tolerance), x, y)

(***************************************************************************)
(* RawDataDiff                                                             *)
(***************************************************************************)
\* RawDataDiff(a, b, numdiffs=...): ImageDataDiff's comparison with the
\* default tolerance, then the shapes reduced to sizes, the pixels renamed
\* bytes and the attribute diff_pixels deleted.
RawDataDiff(x, y, numdiffs) ==
    LET img == ImageDataDiff_diff(ImageDataDiff_init(numdiffs, Zero), x, y)
        dims == IF Len(img.diff_dimensions) > 0
                THEN <<img.diff_dimensions[1][1], img.diff_dimensions[2][1]>>
                ELSE img.diff_dimensions
    IN  [cls |-> "RawDataDiff",
         numdiffs |-> img.numdiffs,
         tolerance |-> img.tolerance,
         diff_dimensions |-> dims,
         diff_bytes |-> [k \in 1..Len(img.diff_pixels) |->
                            <<img.diff_pixels[k][1][1], img.diff_pixels[k][2]>>],
         diff_ratio |-> img.diff_ratio,
         diff_total |-> img.diff_total]


(***************************************************************************)
(* Tables: FITS_rec, ColDefs and Column as TableDataDiff reads them.       *)
(* A table is its columns (name, format) in order, its number of rows and, *)
(* per column, the array of the column's cells: one-dimensional for scalar *)
(* cells, two-dimensional (rows x width) for multi-valued cells, and an    *)
(* object array of sequences for variable-length ('P') cells.              *)
(***************************************************************************)
LowerOf == [X |-> "x", Flux |-> "flux", FLUX |-> "flux", V |-> "v", W |-> "w"]

\* name.lower()
Lower(name) == IF name \in DOMAIN LowerOf THEN LowerOf[name] ELSE name

Column(name, format) == [name |-> name, format |-> format]

\* 'P' in col.format
FormatHasP(format) == format \in {"PJ", "PE"}

\* Column.__eq__ and __hash__, which set() and intersection() use: two
\* columns are the same column when their names match case-insensitively.
ColumnEq(c, d) == Lower(c.name) = Lower(d.name)

\* colsa.intersection(colsb)
ColumnIntersection(colsa, colsb) ==
    {c \in colsa : \E d \in colsb : ColumnEq(c, d)}

\* colsa.difference(colsb)
ColumnDifference(colsa, colsb) ==
    {c \in colsa : ~\E d \in colsb : ColumnEq(c, d)}

\* The sequences that hold each element of S once.
Orders(S) ==
    {q \in [1..Cardinality(S) -> S] :
        \A i, j \in 1..Cardinality(S) : q[i] = q[j] => i = j}

Range(q) == {q[k] : k \in 1..Len(q)}

\* table[name]: the column's array; the lookup falls back to a
\* case-insensitive match.
Field(table, name) == table.data[Lower(name)]

\* arr[idx] for a row index idx: the cell of that row.
Row(arr, idx) ==
    IF Len(arr.shape) = 1 THEN arr.flat[idx + 1]
    ELSE LET w == Prod(Tail(arr.shape))
         IN  SubSeq(arr.flat, idx * w + 1, (idx + 1) * w)

\* np.allclose(xs, ys, rtol=rtol, atol=atol) for two cells of equal length.
np_allclose(xs, ys, rtol, atol) ==
    \A k \in 1..Len(xs) : ~NotClose(xs[k], ys[k], rtol, atol)

\* The elements of q that differ from the element before them: the loop
\* with last_seen_idx.
SkipRepeats(q) ==
    LET keep == TruePositions([k \in 1..Len(q) |-> k = 1 \/ q[k] # q[k - 1]], 1)
    IN  [k \in 1..Len(keep) |-> q[keep[k] + 1]]

(***************************************************************************)
(* TableDataDiff                                                           *)
(***************************************************************************)
\* The exception a constructor raised, in place of the object.
Raised(exc) == [cls |-> "Raised", exc |-> exc]

\* TableDataDiff.__init__ up to the call of _diff.
TableDataDiff_init(ignore_fields, numdiffs, tolerance) ==
    [cls |-> "TableDataDiff",
     ignore_fields |-> ignore_fields,
     numdiffs |-> numdiffs,
     tolerance |-> tolerance,
     common_columns |-> <<>>,
     common_column_names |-> {},
     diff_column_count |-> <<>>,
     diff_columns |-> <<>>,
     diff_column_names |-> <<>>,
     diff_values |-> <<>>,
     diff_ratio |-> Zero,
     diff_total |-> 0]

\* diffs[0] for one common column: the row indices where the column differs,
\* a row repeated once per differing element of a multi-valued cell.
ColumnDiffRows(col, x, y, tolerance) ==
    LET cola == Field(x, col.name)
        colb == Field(y, col.name)
    IN  IF IsFloat(cola) /\ IsFloat(colb)
        THEN where_not_allclose(cola, colb, tolerance, Zero)[1]
        ELSE IF FormatHasP(col.format)
        THEN TruePositions(
                 [k \in 1..Len(cola.flat) |->
                     ~np_allclose(cola.flat[k], colb.flat[k], tolerance, Zero)], 1)
        ELSE np_where([k \in 1..Len(cola.flat) |-> cola.flat[k] # colb.flat[k]],
                      cola.shape)[1]

\* Mutant: a column reached after the cap is met is not counted either.
TableDataDiff_column_CountAfterCap(self, col, x, y) ==
    LET rows == ColumnDiffRows(col, x, y, self.tolerance)
        counted == [self EXCEPT !.diff_total = @ + Cardinality(Range(rows))]
        max_diffs == IF self.numdiffs >= 0
                     THEN self.numdiffs - Len(self.diff_values)
                     ELSE Len(rows)
        kept == SkipRepeats(islice(rows, max_diffs))
    IN  IF self.numdiffs >= 0 /\ Len(self.diff_values) >= self.numdiffs
        THEN self
        ELSE [counted EXCEPT
                !.diff_values = @ \o
                    [k \in 1..Len(kept) |->
                        <<<<col.name, kept[k]>>,
                          <<Row(Field(x, col.name), kept[k]),
                            Row(Field(y, col.name), kept[k])>>>>]]

\* One pass of the loop over self.common_columns.
TableDataDiff_column(self, col, x, y) ==
    LET rows == ColumnDiffRows(col, x, y, self.tolerance)
        counted == [self EXCEPT !.diff_total = @ + Cardinality(Range(rows))]
        max_diffs == IF self.numdiffs >= 0
                     THEN self.numdiffs - Len(self.diff_values)
                     ELSE Len(rows)
        kept == SkipRepeats(islice(rows, max_diffs))
    IN  IF Lower(col.name) \in {Lower(f) : f \in self.ignore_fields}
        THEN self
        ELSE IF self.numdiffs >= 0 /\ Len(self.diff_values) >= self.numdiffs
        THEN counted
        ELSE [counted EXCEPT
                !.diff_values = @ \o
                    [k \in 1..Len(kept) |->
                        <<<<col.name, kept[k]>>,
                          <<Row(Field(x, col.name), kept[k]),
                            Row(Field(y, col.name), kept[k])>>>>]]

RECURSIVE TableDataDiff_columns(_, _, _, _)
TableDataDiff_columns(self, cols, x, y) ==
    IF cols = <<>> THEN self
    ELSE TableDataDiff_columns(TableDataDiff_column(self, Head(cols), x, y),
                               Tail(cols), x, y)

\* The columns of a table that ignore_fields leaves.
KeptColumns(table, ignore_fields) ==
    {c \in Range(table.columns) :
        Lower(c.name) \notin {Lower(f) : f \in ignore_fields}}

\* Mutant: the names are listed from the last column of the table to the
\* first.
ColumnNamesIn_LastFirst(table, only) ==
    LET at == TruePositions(
                  [k \in 1..Len(table.columns) |->
                      Lower(table.columns[k].name) \in DOMAIN only], 1)
    IN  [k \in 1..Len(at) |-> table.columns[at[Len(at) + 1 - k] + 1].name]

\* The names (as spelled in the table, in the table's order) of the columns
\* whose lower-case name is a key of the dict only.
ColumnNamesIn(table, only) ==
    LET at == TruePositions(
                  [k \in 1..Len(table.columns) |->
                      Lower(table.columns[k].name) \in DOMAIN only], 1)
    IN  [k \in 1..Len(at) |-> table.columns[at[k] + 1].name]

\* dict((col.name.lower(), col) for col in cols)
ColumnDict(cols) ==
    [n \in {Lower(c.name) : c \in cols} |->
        CHOOSE c \in cols : Lower(c.name) = n]

\* TableDataDiff._diff where sorted() returned the common columns in the
\* order `common`.
TableDataDiff_diff(self, x, y, common) ==
    LET counted == IF Len(x.columns) # Len(y.columns)
                   THEN [self EXCEPT !.diff_column_count =
                                        <<Len(x.columns), Len(y.columns)>>]
                   ELSE self
        colsa == KeptColumns(x, self.ignore_fields)
        colsb == KeptColumns(y, self.ignore_fields)
        left_only_columns == ColumnDict(ColumnDifference(colsa, colsb))
        right_only_columns == ColumnDict(ColumnDifference(colsb, colsa))
        named == [counted EXCEPT
                    !.common_columns = common,
                    !.common_column_names = {Lower(c.name) : c \in Range(common)},
                    !.diff_columns =
                        IF DOMAIN left_only_columns # {} \/ DOMAIN right_only_columns # {}
                        THEN <<left_only_columns, right_only_columns>> ELSE @,
                    !.diff_column_names =
                        IF DOMAIN left_only_columns # {} \/ DOMAIN right_only_columns # {}
                        THEN <<ColumnNamesIn(x, left_only_columns),
                               ColumnNamesIn(y, right_only_columns)>>
                        ELSE @]
        compared == TableDataDiff_columns(named, common, x, y)
        total_values == x.nrows * Len(x.columns)
    IN  IF "*" \in self.ignore_fields THEN counted
        ELSE IF total_values = 0 THEN Raised("ZeroDivisionError")
        ELSE [compared EXCEPT
                !.diff_ratio = FloatDiv(compared.diff_total, total_values)]

\* The orders sorted() may give the common columns: Column defines no
\* ordering, so the objects sort by their addresses.
SortedCommonColumns(x, y, ignore_fields) ==
    Orders(ColumnIntersection(KeptColumns(x, ignore_fields),
                              KeptColumns(y, ignore_fields)))

\* TableDataDiff(a, b, ignore_fields=..., numdiffs=..., tolerance=...): the
\* objects the constructor may build, one per order of the common columns.
TableDataDiff(x, y, ignore_fields, numdiffs, tolerance) ==
    {TableDataDiff_diff(TableDataDiff_init(ignore_fields, numdiffs, tolerance),
                        x, y, common) :
        common \in SortedCommonColumns(x, y, ignore_fields)}

(***************************************************************************)
(* Headers: a Header is the sequence of its cards, a card is its keyword,  *)
(* its value and its comment.  A value is an int, a float or a str (the   *)
(* comment is a str); a str is the sequence of its characters.  A keyword *)
(* or a wildcard pattern is named by a string whose characters            *)
(* KeywordChars gives.                                                     *)
(***************************************************************************)
IntValue(n) == [t |-> "int", n |-> n, s |-> <<>>]

FloatValue(n) == [t |-> "float", n |-> n, s |-> <<>>]

StrValue(s) == [t |-> "str", n |-> 0, s |-> s]

\* None where a card value is expected (header.get of a missing keyword).
NoneValue == [t |-> "None", n |-> 0, s |-> <<>>]

Card(keyword, value, comment) ==
    [keyword |-> keyword, value |-> value, comment |-> comment]

\* a != b for two Python values: numbers compare by value whatever their
\* types, strings by their characters, values of unlike kinds are unequal.
PyNe(x, y) ==
    IF x.t \in {"int", "float"} /\ y.t \in {"int", "float"} THEN x.n # y.n
    ELSE IF x.t = "str" /\ y.t = "str" THEN x.s # y.s
    ELSE x.t # y.t

\* Mutant: the blanks are stripped from both ends.
rstrip_BothEnds(s) ==
    LET inked == {i \in 1..Len(s) : s[i] # " "}
    IN  IF inked = {} THEN <<>>
        ELSE SubSeq(s, CHOOSE i \in inked : \A j \in inked : i <= j,
                       CHOOSE i \in inked : \A j \in inked : j <= i)

\* str.rstrip()
RECURSIVE rstrip(_)
rstrip(s) ==
    IF s # <<>> /\ s[Len(s)] = " " THEN rstrip(SubSeq(s, 1, Len(s) - 1)) ELSE s

\* diff_values(a, b, tolerance)
diff_values(x, y, tolerance) ==
    IF x.t = "float" /\ y.t = "float"
    THEN NotClose(x.n, y.n, tolerance, Zero)
    ELSE PyNe(x, y)

\* The characters of the keywords and patterns used.
KeywordChars ==
    ("NAXIS" :> <<"N", "A", "X", "I", "S">>)
    @@ ("NAXIS1" :> <<"N", "A", "X", "I", "S", "1">>)
    @@ ("HISTORY" :> <<"H", "I", "S", "T", "O", "R", "Y">>)
    @@ ("EXTVER" :> <<"E", "X", "T", "V", "E", "R">>)
    @@ ("XTENSION" :> <<"X", "T", "E", "N", "S", "I", "O", "N">>)
    @@ ("*" :> <<"*">>)
    @@ ("NAXIS*" :> <<"N", "A", "X", "I", "S", "*">>)
    @@ ("NAXIS?" :> <<"N", "A", "X", "I", "S", "?">>)
    @@ ("H*" :> <<"H", "*">>)

\* ord() of the characters of keywords.
Ord ==
    ("1" :> 49) @@ ("A" :> 65) @@ ("E" :> 69) @@ ("H" :> 72) @@ ("I" :> 73)
    @@ ("N" :> 78) @@ ("O" :> 79) @@ ("R" :> 82) @@ ("S" :> 83) @@ ("T" :> 84)
    @@ ("V" :> 86) @@ ("X" :> 88) @@ ("Y" :> 89)

\* s < t for two strings given by their characters.
RECURSIVE StrLess(_, _)
StrLess(s, t) ==
    IF t = <<>> THEN FALSE
    ELSE IF s = <<>> THEN TRUE
    ELSE IF Head(s) = Head(t) THEN StrLess(Tail(s), Tail(t))
    ELSE Ord[Head(s)] < Ord[Head(t)]

RECURSIVE sorted(_)

\* Mutant: the keywords come in descending order.
sorted_Descending(keywords) ==
    IF keywords = {} THEN <<>>
    ELSE LET first == CHOOSE k \in keywords :
                         \A other \in keywords \ {k} :
                             StrLess(KeywordChars[k], KeywordChars[other])
         IN  sorted(keywords \ {first}) \o <<first>>

\* sorted(keywords) for a set of keywords.
sorted(keywords) ==
    IF keywords = {} THEN <<>>
    ELSE LET first == CHOOSE k \in keywords :
                         \A other \in keywords \ {k} :
                             StrLess(KeywordChars[k], KeywordChars[other])
         IN  <<first>> \o sorted(keywords \ {first})

\* glob.has_magic(keyword)
has_magic(keyword) ==
    \E i \in 1..Len(KeywordChars[keyword]) :
        KeywordChars[keyword][i] \in {"*", "?", "["}

\* The match of a name against a pattern of literal characters, '*' and '?'.
RECURSIVE Matches(_, _)
Matches(name, pat) ==
    IF pat = <<>> THEN name = <<>>
    ELSE IF Head(pat) = "*"
    THEN Matches(name, Tail(pat)) \/ (name # <<>> /\ Matches(Tail(name), pat))
    ELSE /\ name # <<>>
         /\ Head(pat) = "?" \/ Head(pat) = Head(name)
         /\ Matches(Tail(name), Tail(pat))

\* fnmatch.fnmatch(keyword, pattern)
fnmatch(keyword, pattern) ==
    Matches(KeywordChars[keyword], KeywordChars[pattern])

\* Mutant: the length of a header counts its distinct keywords.
HeaderLen_DistinctKeywords(header) ==
    Cardinality({header[i].keyword : i \in 1..Len(header)})

\* len(header)
HeaderLen(header) == Len(header)

\* header.get(keyword): the value of the card of that keyword, None without.
Header_get(header, keyword) ==
    IF \E i \in 1..Len(header) : header[i].keyword = keyword
    THEN header[CHOOSE i \in 1..Len(header) :
                    /\ header[i].keyword = keyword
                    /\ \A j \in 1..(i - 1) : header[j].keyword # keyword].value
    ELSE NoneValue

(***************************************************************************)
(* HeaderDiff                                                              *)
(***************************************************************************)
\* The empty dict.
EmptyDict == [k \in {} |-> <<>>]

\* HeaderDiff.__init__ up to the call of _diff: the wildcard patterns are
\* moved from the two ignore sets to the two pattern sets.
HeaderDiff_init(ignore_keywords, ignore_comments, tolerance, ignore_blanks) ==
    [cls |-> "HeaderDiff",
     ignore_keywords |-> {k \in ignore_keywords : ~(k # "*" /\ has_magic(k))},
     ignore_comments |-> {k \in ignore_comments : ~(k # "*" /\ has_magic(k))},
     tolerance |-> tolerance,
     ignore_blanks |-> ignore_blanks,
     ignore_keyword_patterns |-> {k \in ignore_keywords : k # "*" /\ has_magic(k)},
     ignore_comment_patterns |-> {k \in ignore_comments : k # "*" /\ has_magic(k)},
     common_keywords |-> <<>>,
     diff_keyword_count |-> <<>>,
     diff_keyword_positions |-> <<>>,
     diff_keywords |-> <<>>,
     diff_duplicate_keywords |-> EmptyDict,
     diff_keyword_values |-> EmptyDict,
     diff_keyword_comments |-> EmptyDict]

\* Mutant: a later card of a keyword replaces the earlier ones.
CardsOf_LastOnly(header, keyword) ==
    LET cards == SelectSeq(header, LAMBDA card : card.keyword = keyword)
    IN  IF cards = <<>> THEN cards ELSE <<cards[Len(cards)]>>

\* The cards of a keyword, in the header's order.
CardsOf(header, keyword) == SelectSeq(header, LAMBDA card : card.keyword = keyword)

\* values of get_header_values_comments(header)
HeaderValues(self, header) ==
    [k \in {header[i].keyword : i \in 1..Len(header)} |->
        [i \in 1..Len(CardsOf(header, k)) |->
            LET value == CardsOf(header, k)[i].value
            IN  IF self.ignore_blanks /\ value.t = "str"
                THEN StrValue(rstrip(value.s)) ELSE value]]

\* comments of get_header_values_comments(header)
HeaderComments(header) ==
    [k \in {header[i].keyword : i \in 1..Len(header)} |->
        [i \in 1..Len(CardsOf(header, k)) |-> CardsOf(header, k)[i].comment]]

\* Mutant: the list holds the differing pairs only.
ZipDiff_DifferencesOnly(lista, listb, tolerance) ==
    SelectSeq([i \in 1..Min(Len(lista), Len(listb)) |->
                  IF diff_values(lista[i], listb[i], tolerance)
                  THEN <<lista[i], listb[i]>> ELSE <<>>],
              LAMBDA entry : entry # <<>>)

\* The list the loop builds for one keyword from zip(lista, listb): the
\* pair where the two entries differ, None (modelled by the empty tuple,
\* as false as None is) where they do not.
ZipDiff(lista, listb, tolerance) ==
    [i \in 1..Min(Len(lista), Len(listb)) |->
        IF diff_values(lista[i], listb[i], tolerance)
        THEN <<lista[i], listb[i]>> ELSE <<>>]

\* any(entries)
any(entries) == \E i \in 1..Len(entries) : entries[i] # <<>>

\* Mutant: the wildcard patterns are not applied to the keywords.
HeaderDiff_kept_ExactOnly(self, keywords) == keywords \ self.ignore_keywords

\* keywords.difference(self.ignore_keywords), then less the keywords that
\* fnmatch.filter finds for a pattern.
HeaderDiff_kept(self, keywords) ==
    {k \in keywords \ self.ignore_keywords :
        ~(\E pattern \in self.ignore_keyword_patterns : fnmatch(k, pattern))}

\* Mutant: the comments of a keyword are compared only where its values
\* differ.
HeaderDiff_diff_CommentsWhereValuesDiffer(self, x, y) ==
    LET valuesa == HeaderValues(self, x)
        valuesb == HeaderValues(self, y)
        commentsa == HeaderComments(x)
        commentsb == HeaderComments(y)
        common_keywords == sorted(DOMAIN valuesa \cap DOMAIN valuesb)
        counted == [self EXCEPT
                      !.common_keywords = common_keywords,
                      !.diff_keyword_count =
                          IF HeaderLen(x) # HeaderLen(y)
                          THEN <<HeaderLen(x), HeaderLen(y)>> ELSE @]
        keywordsa == HeaderDiff_kept(self, DOMAIN valuesa)
        keywordsb == HeaderDiff_kept(self, DOMAIN valuesb)
        left_only_keywords == sorted(keywordsa \ keywordsb)
        right_only_keywords == sorted(keywordsb \ keywordsa)
        compared == HeaderDiff_kept(self, DOMAIN valuesa \cap DOMAIN valuesb)
        commented == {k \in compared :
                        /\ "*" \notin self.ignore_comments
                        /\ k \notin self.ignore_comments
                        /\ ~(\E pattern \in self.ignore_comment_patterns :
                                fnmatch(k, pattern))
                        /\ \E i \in 1..Min(Len(valuesa[k]), Len(valuesb[k])) :
                              diff_values(valuesa[k][i], valuesb[k][i],
                                          self.tolerance)}
        values(k) == ZipDiff(valuesa[k], valuesb[k], self.tolerance)
        comments(k) == ZipDiff(commentsa[k], commentsb[k], Zero)
    IN  IF "*" \in self.ignore_keywords THEN counted
        ELSE [counted EXCEPT
                !.diff_keywords =
                    IF left_only_keywords # <<>> \/ right_only_keywords # <<>>
                    THEN <<left_only_keywords, right_only_keywords>> ELSE @,
                !.diff_duplicate_keywords =
                    [k \in {c \in compared : Len(valuesa[c]) # Len(valuesb[c])} |->
                        <<Len(valuesa[k]), Len(valuesb[k])>>],
                !.diff_keyword_values =
                    [k \in {c \in compared : any(values(c))} |-> values(k)],
                !.diff_keyword_comments =
                    [k \in {c \in commented : any(comments(c))} |-> comments(k)]]

\* Mutant: the keywords of the second header only are taken from the
\* first header's side.
HeaderDiff_diff_RightOnlyFromLeft(self, x, y) ==
    LET valuesa == HeaderValues(self, x)
        valuesb == HeaderValues(self, y)
        commentsa == HeaderComments(x)
        commentsb == HeaderComments(y)
        common_keywords == sorted(DOMAIN valuesa \cap DOMAIN valuesb)
        counted == [self EXCEPT
                      !.common_keywords = common_keywords,
                      !.diff_keyword_count =
                          IF HeaderLen(x) # HeaderLen(y)
                          THEN <<HeaderLen(x), HeaderLen(y)>> ELSE @]
        keywordsa == HeaderDiff_kept(self, DOMAIN valuesa)
        keywordsb == HeaderDiff_kept(self, DOMAIN valuesb)
        left_only_keywords == sorted(keywordsa \ keywordsb)
        right_only_keywords == sorted(keywordsa \ keywordsb)
        compared == HeaderDiff_kept(self, DOMAIN valuesa \cap DOMAIN valuesb)
        commented == {k \in compared :
                        /\ "*" \notin self.ignore_comments
                        /\ k \notin self.ignore_comments
                        /\ ~(\E pattern \in self.ignore_comment_patterns :
                                fnmatch(k, pattern))}
        values(k) == ZipDiff(valuesa[k], valuesb[k], self.tolerance)
        comments(k) == ZipDiff(commentsa[k], commentsb[k], Zero)
    IN  IF "*" \in self.ignore_keywords THEN counted
        ELSE [counted EXCEPT
                !.diff_keywords =
                    IF left_only_keywords # <<>> \/ right_only_keywords # <<>>
                    THEN <<left_only_keywords, right_only_keywords>> ELSE @,
                !.diff_duplicate_keywords =
                    [k \in {c \in compared : Len(valuesa[c]) # Len(valuesb[c])} |->
                        <<Len(valuesa[k]), Len(valuesb[k])>>],
                !.diff_keyword_values =
                    [k \in {c \in compared : any(values(c))} |-> values(k)],
                !.diff_keyword_comments =
                    [k \in {c \in commented : any(comments(c))} |-> comments(k)]]

\* HeaderDiff._diff
HeaderDiff_diff(self, x, y) ==
    LET valuesa == HeaderValues(self, x)
        valuesb == HeaderValues(self, y)
        commentsa == HeaderComments(x)
        commentsb == HeaderComments(y)
        common_keywords == sorted(DOMAIN valuesa \cap DOMAIN valuesb)
        counted == [self EXCEPT
                      !.common_keywords = common_keywords,
                      !.diff_keyword_count =
                          IF HeaderLen(x) # HeaderLen(y)
                          THEN <<HeaderLen(x), HeaderLen(y)>> ELSE @]
        keywordsa == HeaderDiff_kept(self, DOMAIN valuesa)
        keywordsb == HeaderDiff_kept(self, DOMAIN valuesb)
        left_only_keywords == sorted(keywordsa \ keywordsb)
        right_only_keywords == sorted(keywordsb \ keywordsa)
        compared == HeaderDiff_kept(self, DOMAIN valuesa \cap DOMAIN valuesb)
        commented == {k \in compared :
                        /\ "*" \notin self.ignore_comments
                        /\ k \notin self.ignore_comments
                        /\ ~(\E pattern \in self.ignore_comment_patterns :
                                fnmatch(k, pattern))}
        values(k) == ZipDiff(valuesa[k], valuesb[k], self.tolerance)
        comments(k) == ZipDiff(commentsa[k], commentsb[k], Zero)
    IN  IF "*" \in self.ignore_keywords THEN counted
        ELSE [counted EXCEPT
                !.diff_keywords =
                    IF left_only_keywords # <<>> \/ right_only_keywords # <<>>
                    THEN <<left_only_keywords, right_only_keywords>> ELSE @,
                !.diff_duplicate_keywords =
                    [k \in {c \in compared : Len(valuesa[c]) # Len(valuesb[c])} |->
                        <<Len(valuesa[k]), Len(valuesb[k])>>],
                !.diff_keyword_values =
                    [k \in {c \in compared : any(values(c))} |-> values(k)],
                !.diff_keyword_comments =
                    [k \in {c \in commented : any(comments(c))} |-> comments(k)]]

\* HeaderDiff(a, b, ignore_keywords=..., ignore_comments=..., tolerance=...,
\* ignore_blanks=...)
HeaderDiff(x, y, ignore_keywords, ignore_comments, tolerance, ignore_blanks) ==
    HeaderDiff_diff(HeaderDiff_init(ignore_keywords, ignore_comments,
                                    tolerance, ignore_blanks), x, y)

(***************************************************************************)
(* HDUDiff.  An HDU is its kind ("image" when is_image holds, "table" for  *)
(* a _TableLikeHDU, "other" for the rest), its name, its header and its    *)
(* data (None, an array or a table).                                       *)
(***************************************************************************)
HDU(kind, name, header, data) ==
    [kind |-> kind, name |-> name, header |-> header, data |-> data]

\* hdu.is_image
is_image(hdu) == hdu.kind = "image"

\* isinstance(hdu, _TableLikeHDU)
IsTableLikeHDU(hdu) == hdu.kind = "table"

\* The defaults of TableDataDiff.__init__ and RawDataDiff.__init__.
TableDataDiff_numdiffs == 10

RawDataDiff_numdiffs == 10

\* HDUDiff.__init__ up to the call of _diff.
HDUDiff_init(ignore_keywords, ignore_comments, ignore_fields, numdiffs, tolerance, ignore_blanks) ==
    [cls |-> "HDUDiff",
     ignore_keywords |-> ignore_keywords,
     ignore_comments |-> ignore_comments,
     ignore_fields |-> ignore_fields,
     tolerance |-> tolerance,
     numdiffs |-> numdiffs,
     ignore_blanks |-> ignore_blanks,
     diff_extnames |-> <<>>,
     diff_extvers |-> <<>>,
     diff_extension_types |-> <<>>,
     diff_headers |-> None,
     diff_data |-> None]

\* The data diffs HDUDiff._diff may build (None when it builds none).
HDUDiff_data(self, x, y) ==
    IF x.data = None \/ y.data = None THEN {None}
    ELSE IF is_image(x) /\ is_image(y)
    THEN {ImageDataDiff(x.data, y.data, self.numdiffs, self.tolerance)}
    ELSE IF IsTableLikeHDU(x) /\ IsTableLikeHDU(y)
    THEN TableDataDiff(x.data, y.data, {}, TableDataDiff_numdiffs, Zero)
    ELSE IF Len(self.diff_extension_types) = 0
    THEN {RawDataDiff(x.data, y.data, RawDataDiff_numdiffs)}
    ELSE {None}

\* HDUDiff._diff: the objects it may leave, or the exception it lets through.
HDUDiff_diff(self, x, y) ==
    LET extvera == Header_get(x.header, "EXTVER")
        extverb == Header_get(y.header, "EXTVER")
        xtensiona == Header_get(x.header, "XTENSION")
        xtensionb == Header_get(y.header, "XTENSION")
        identified ==
            [self EXCEPT
               !.diff_extnames = IF x.name # y.name THEN <<x.name, y.name>> ELSE @,
               !.diff_extvers = IF PyNe(extvera, extverb)
                                THEN <<extvera, extverb>> ELSE @,
               !.diff_extension_types = IF PyNe(xtensiona, xtensionb)
                                        THEN <<xtensiona, xtensionb>> ELSE @,
               !.diff_headers = HeaderDiff(x.header, y.header,
                                           self.ignore_keywords,
                                           self.ignore_comments,
                                           self.tolerance, self.ignore_blanks)]
    IN  {IF data.cls = "Raised" THEN data
         ELSE [identified EXCEPT !.diff_data = data] :
            data \in HDUDiff_data(identified, x, y)}

\* HDUDiff(a, b, ignore_keywords=..., ..., ignore_blanks=...)
HDUDiff(x, y, ignore_keywords, ignore_comments, ignore_fields, numdiffs, tolerance, ignore_blanks) ==
    HDUDiff_diff(HDUDiff_init(ignore_keywords, ignore_comments, ignore_fields,
                              numdiffs, tolerance, ignore_blanks), x, y)

(***************************************************************************)
(* FITSDiff.  An HDUList is the sequence of its HDUs.                      *)
(***************************************************************************)
\* FITSDiff.__init__ up to the call of _diff.
FITSDiff_init(ignore_keywords, ignore_comments, ignore_fields, numdiffs, tolerance, ignore_blanks) ==
    [cls |-> "FITSDiff",
     ignore_keywords |-> ignore_keywords,
     ignore_comments |-> ignore_comments,
     ignore_fields |-> ignore_fields,
     numdiffs |-> numdiffs,
     tolerance |-> tolerance,
     ignore_blanks |-> ignore_blanks,
     diff_hdu_count |-> <<>>,
     diff_hdus |-> <<>>]

RECURSIVE FITSDiff_hdus(_, _, _, _)

\* Mutant: the HDUDiff of every position compared is recorded.
FITSDiff_hdus_KeepIdentical(self, x, y, idx) ==
    IF idx >= Min(Len(x), Len(y)) THEN {self}
    ELSE UNION {
           IF hdu_diff.cls = "Raised" THEN {hdu_diff}
           ELSE FITSDiff_hdus(
                    [self EXCEPT !.diff_hdus = Append(@, <<idx, hdu_diff>>)],
                    x, y, idx + 1) :
           hdu_diff \in HDUDiff(x[idx + 1], y[idx + 1], self.ignore_keywords,
                                self.ignore_comments, self.ignore_fields,
                                self.numdiffs, self.tolerance, self.ignore_blanks)}

\* The loop of FITSDiff._diff from index idx on: the objects it may leave,
\* or the exception an HDUDiff raised.
FITSDiff_hdus(self, x, y, idx) ==
    IF idx >= Min(Len(x), Len(y)) THEN {self}
    ELSE UNION {
           IF hdu_diff.cls = "Raised" THEN {hdu_diff}
           ELSE FITSDiff_hdus(
                    IF ~identical(hdu_diff)
                    THEN [self EXCEPT !.diff_hdus = Append(@, <<idx, hdu_diff>>)]
                    ELSE self,
                    x, y, idx + 1) :
           hdu_diff \in HDUDiff(x[idx + 1], y[idx + 1], self.ignore_keywords,
                                self.ignore_comments, self.ignore_fields,
                                self.numdiffs, self.tolerance, self.ignore_blanks)}

\* FITSDiff._diff
FITSDiff_diff(self, x, y) ==
    FITSDiff_hdus(IF Len(x) # Len(y)
                  THEN [self EXCEPT !.diff_hdu_count = <<Len(x), Len(y)>>]
                  ELSE self,
                  x, y, 0)

\* FITSDiff(a, b, ignore_keywords=..., ..., ignore_blanks=...) for two
\* HDUList objects.
FITSDiff(x, y, ignore_keywords, ignore_comments, ignore_fields, numdiffs, tolerance, ignore_blanks) ==
    FITSDiff_diff(FITSDiff_init(ignore_keywords, ignore_comments, ignore_fields,
                                numdiffs, tolerance, ignore_blanks), x, y)

(***************************************************************************)
(* The inputs tried.                                                       *)
(***************************************************************************)
\* The caps (numdiffs) tried: negative (unlimited), zero and positive.
Caps == -1..MaxCap

\* The relative tolerances tried: 0, 1/2 and 1.
Tolerances == {Zero, Rat(1, 2), Rat(1, 1)}

\* The elements of one-dimensional arrays.
Elems == {0, 1, 2}

\* The elements of two-dimensional arrays.
Bits == {0, 1}

\* The shapes of the image arrays tried: every length up to MaxLen in one
\* dimension, and two rows of one or two elements.
ImageShapes ==
    {<<n>> : n \in 0..MaxLen} \cup {<<2, 1>>, <<2, 2>>}

ArraysOfShape(dtype, shape) ==
    {Array(dtype, shape, flat) :
        flat \in [1..Prod(shape) -> IF Len(shape) = 1 THEN Elems ELSE Bits]}

\* An array of the given shape with every element equal to v.
Filled(dtype, shape, v) == Array(dtype, shape, [p \in 1..Prod(shape) |-> v])

DTypes == {"int", "float"}

\* Pairs of image arrays: every pair of arrays of the same shape, and for
\* every two different shapes a pair of constant arrays.
ImagePairs ==
    UNION {ArraysOfShape(q[1], q[3]) \X ArraysOfShape(q[2], q[3]) :
              q \in DTypes \X DTypes \X ImageShapes}
    \cup {<<Filled(q[1], q[3], 1), Filled(q[2], q[4], 0)>> :
              q \in {r \in DTypes \X DTypes \X ImageShapes \X ImageShapes :
                        r[3] # r[4]}}

\* Pairs of raw data: one-dimensional arrays of bytes.
RawPairs ==
    {p \in ImagePairs : /\ p[1].dtype = "int" /\ p[2].dtype = "int"
                        /\ Len(p[1].shape) = 1 /\ Len(p[2].shape) = 1}

\* The columns tables are made of: an integer, a floating point, a
\* two-element integer and a variable-length integer column.
Catalogue ==
    {Column("X", "J"), Column("Flux", "E"), Column("V", "2J"), Column("W", "PJ")}

IsArrayColumn(col) == col.format \in {"2J", "PJ"}

\* The column lists of the tables tried: one or two columns of the
\* catalogue, at most one of them with array cells.
Layouts ==
    {<<c>> : c \in Catalogue}
    \cup {<<c, d>> : <<c, d>> \in {q \in Catalogue \X Catalogue :
                          q[1] # q[2] /\ ~(IsArrayColumn(q[1]) /\ IsArrayColumn(q[2]))}}

\* The arrays a column of nrows rows may hold, its elements drawn from elems.
ColumnArrays(col, nrows, elems) ==
    CASE col.format = "J" ->
           {Array("int", <<nrows>>, f) : f \in [1..nrows -> elems]}
      [] col.format = "E" ->
           {Array("float", <<nrows>>, f) : f \in [1..nrows -> elems]}
      [] col.format = "2J" ->
           {Array("int", <<nrows, 2>>, f) : f \in [1..(2 * nrows) -> elems]}
      [] col.format = "PJ" ->
           {Array("object", <<nrows>>, f) : f \in [1..nrows -> [1..2 -> elems]]}

RECURSIVE TableData(_, _, _)
TableData(layout, nrows, elems) ==
    IF layout = <<>> THEN {<<>>}
    ELSE {(Lower(Head(layout).name) :> arr) @@ d :
             arr \in ColumnArrays(Head(layout), nrows, elems),
             d \in TableData(Tail(layout), nrows, elems)}

Tables(layout, nrows, elems) ==
    {[columns |-> layout, nrows |-> nrows, data |-> d] :
        d \in TableData(layout, nrows, elems)}

\* Pairs of tables with the same number of rows: a table of ones against
\* every table of the same layout with elements 1 and 2, and against the
\* table of twos of every other layout.
TablePairs ==
    UNION {Tables(q[1], q[2], {1}) \X Tables(q[1], q[2], {1, 2}) :
              q \in Layouts \X (0..MaxRows)}
    \cup UNION {Tables(q[1], q[3], {1}) \X Tables(q[2], q[3], {2}) :
              q \in {r \in Layouts \X Layouts \X (0..MaxRows) : r[1] # r[2]}}

\* The relative tolerances tried on tables.
TableTolerances == {Zero, Rat(1, 2)}

\* The ignore_fields arguments tried.
IgnoreFieldSets == {{}, {"FLUX"}, {"x"}, {"*"}}

\* The keyword arguments of FITSDiff.__init__ with their defaults.
DefaultNumdiffs == 10

DefaultCfg ==
    [ignore_keywords |-> {}, ignore_comments |-> {}, ignore_fields |-> {},
     numdiffs |-> DefaultNumdiffs, tolerance |-> Zero, ignore_blanks |-> TRUE]

(***************************************************************************)
(* The steps.                                                              *)
(***************************************************************************)
\* result = ImageDataDiff(a, b, numdiffs=n, tolerance=t)
NewImageDataDiff ==
    /\ pc = "new"
    /\ cls = "ImageDataDiff"
    /\ \E n \in Caps, t \in Tolerances :
          /\ cfg' = [cfg EXCEPT !.numdiffs = n, !.tolerance = t]
          /\ result' = ImageDataDiff(a, b, n, t)
    /\ pc' = "built"
    /\ UNCHANGED <<cls, a, b, ret>>

\* result = RawDataDiff(a, b, numdiffs=n)
NewRawDataDiff ==
    /\ pc = "new"
    /\ cls = "RawDataDiff"
    /\ \E n \in Caps :
          /\ cfg' = [cfg EXCEPT !.numdiffs = n]
          /\ result' = RawDataDiff(a, b, n)
    /\ pc' = "built"
    /\ UNCHANGED <<cls, a, b, ret>>

\* result = TableDataDiff(a, b, ignore_fields=f, numdiffs=n, tolerance=t)
NewTableDataDiff ==
    /\ pc = "new"
    /\ cls = "TableDataDiff"
    /\ \E f \in IgnoreFieldSets, n \in Caps, t \in TableTolerances :
          /\ cfg' = [cfg EXCEPT !.ignore_fields = f, !.numdiffs = n, !.tolerance = t]
          /\ result' \in TableDataDiff(a, b, f, n, t)
    /\ pc' = "built"
    /\ UNCHANGED <<cls, a, b, ret>>

\* Two arrays or two tables, and the data diff to build from them.
InitData ==
    /\ cls \in {"ImageDataDiff", "RawDataDiff", "TableDataDiff"}
    /\ \E p \in (CASE cls = "ImageDataDiff" -> ImagePairs
                    [] cls = "RawDataDiff" -> RawPairs
                    [] cls = "TableDataDiff" -> TablePairs) :
          a = p[1] /\ b = p[2]
    /\ cfg = DefaultCfg
    /\ result = Unbuilt
    /\ ret = NoRet
    /\ pc = "new"

NextData == NewImageDataDiff \/ NewRawDataDiff \/ NewTableDataDiff

SpecData == InitData /\ [][NextData]_vars

(***************************************************************************)
(* The six comparators side by side, on samples of inputs, with the calls  *)
(* of identical and of the boolean conversion.                             *)
(***************************************************************************)
\* Bound: the number of cards of a header.
MaxCards == 2

\* Bound: the number of HDUs of an HDUList.
MaxHdus == 2

HeaderKeys == {"NAXIS", "NAXIS1", "HISTORY"}

BaseValue == IntValue(2)

BaseComment == StrValue(<<"c">>)

CardValues ==
    {IntValue(2), IntValue(3), FloatValue(2), FloatValue(3),
     StrValue(<<"v">>), StrValue(<<"v", " ">>), StrValue(<<" ", "v">>)}

CardComments == {StrValue(<<"c">>), StrValue(<<"d">>)}

\* The lists of at most n keywords.
RECURSIVE KeywordLists(_)
KeywordLists(n) ==
    IF n = 0 THEN {<<>>}
    ELSE KeywordLists(n - 1)
         \cup {Append(q, k) : q \in KeywordLists(n - 1), k \in HeaderKeys}

\* The header of the given keywords, every card with the same value and
\* comment.
PlainHeader(keywords) ==
    [i \in 1..Len(keywords) |-> Card(keywords[i], BaseValue, BaseComment)]

\* Pairs of headers: every two lists of keywords under equal values; one
\* card against a card of the same keyword with every value and comment;
\* a keyword given twice against the same with other values, and against
\* the keyword given once.
HeaderPairs ==
    {<<PlainHeader(k1), PlainHeader(k2)>> :
        k1 \in KeywordLists(MaxCards), k2 \in KeywordLists(MaxCards)}
    \cup {<<<<Card("NAXIS", va, BaseComment)>>, <<Card("NAXIS", vb, cb)>>>> :
            va \in {IntValue(2), FloatValue(2), StrValue(<<"v">>)},
            vb \in CardValues, cb \in CardComments}
    \cup {<<PlainHeader(<<"NAXIS", "NAXIS">>),
            <<Card("NAXIS", v1, BaseComment), Card("NAXIS", v2, BaseComment)>>>> :
            v1 \in {IntValue(2), IntValue(3)}, v2 \in {IntValue(2), IntValue(3)}}
    \cup {<<PlainHeader(<<"NAXIS", "NAXIS">>), <<Card("NAXIS", v, c)>>>> :
            v \in {IntValue(2), IntValue(3)}, c \in CardComments}

HeaderIgnoreKeywords == {{}, {"NAXIS"}, {"NAXIS*"}, {"*"}}

HeaderIgnoreComments == {{}, {"NAXIS"}}

\* The arrays, byte arrays and tables the sampled HDUs hold.
SampleImages ==
    {Filled("float", <<1>>, 1), Filled("float", <<2>>, 1), Filled("float", <<2>>, 2)}

SampleBytes ==
    {Filled("int", <<1>>, 0), Filled("int", <<1>>, 1), Filled("int", <<2>>, 1)}

SampleTables ==
    Tables(<<Column("Flux", "E")>>, 1, {1, 2})
    \cup Tables(<<Column("X", "J"), Column("Flux", "E")>>, 1, {1, 2})
    \cup Tables(<<Column("X", "J")>>, 0, {1})

SameRows(x, y) == x.nrows = y.nrows

XtensionCard(chars) == Card("XTENSION", StrValue(chars), BaseComment)

ImageHeader(extver) ==
    <<XtensionCard(<<"I", "M", "A", "G", "E">>),
      Card("EXTVER", IntValue(extver), BaseComment)>>

TableHeader == <<XtensionCard(<<"B", "I", "N", "T", "A", "B", "L", "E">>)>>

\* The HDUs tried: a primary and three extension images, a binary table,
\* two extensions of a type that is neither, each with no data and with
\* each sample of data of its kind; and a primary HDU that is neither an
\* image nor a table (its header, like that of the primary image, has no
\* XTENSION card), without and with data.
SampleHDUs ==
    {HDU("image", q[1], q[2], data) :
        q \in {<<"PRIMARY", <<>>>>, <<"SCI", ImageHeader(1)>>,
               <<"SCI", ImageHeader(2)>>, <<"ERR", ImageHeader(1)>>},
        data \in {None} \cup SampleImages}
    \cup {HDU("table", "CAT", TableHeader, data) : data \in {None} \cup SampleTables}
    \cup {HDU("other", "FOO", <<XtensionCard(chars)>>, data) :
            chars \in {<<"F", "O", "O">>, <<"B", "A", "R">>},
            data \in {None} \cup SampleBytes}
    \cup {HDU("other", "PRIMARY", <<>>, data) :
            data \in {None, Filled("int", <<1>>, 1)}}

\* Two tables are only compared when they have as many rows.
ComparableHDUs(x, y) ==
    (IsTableLikeHDU(x) /\ IsTableLikeHDU(y) /\ x.data # None /\ y.data # None)
        => SameRows(x.data, y.data)

HDUPairs == {p \in SampleHDUs \X SampleHDUs : ComparableHDUs(p[1], p[2])}

HDUIgnoreKeywords == {{}, {"EXTVER"}}

HDUIgnoreFields == {{}, {"FLUX"}}

\* The HDUs of the HDULists tried: a primary image and two tables.
ListedHDUs ==
    {HDU("image", "PRIMARY", <<>>, Filled("float", <<1>>, 1))}
    \cup {HDU("table", "CAT", TableHeader, data) :
            data \in Tables(<<Column("Flux", "E")>>, 1, {1, 2})}

RECURSIVE HDULists(_)
HDULists(n) ==
    IF n = 0 THEN {<<>>}
    ELSE HDULists(n - 1)
         \cup {Append(q, hdu) : q \in HDULists(n - 1), hdu \in ListedHDUs}

HDUListPairs == HDULists(MaxHdus) \X HDULists(MaxHdus)

\* result = HeaderDiff(a, b, ignore_keywords=k, ignore_comments=c,
\*                     tolerance=t, ignore_blanks=w)
NewHeaderDiff ==
    /\ pc = "new"
    /\ cls = "HeaderDiff"
    /\ \E k \in HeaderIgnoreKeywords, c \in HeaderIgnoreComments,
          t \in TableTolerances, w \in BOOLEAN :
          /\ cfg' = [cfg EXCEPT !.ignore_keywords = k, !.ignore_comments = c,
                                !.tolerance = t, !.ignore_blanks = w]
          /\ result' = HeaderDiff(a, b, k, c, t, w)
    /\ pc' = "built"
    /\ UNCHANGED <<cls, a, b, ret>>

\* result = HDUDiff(a, b, ignore_keywords=k, ignore_fields=f, numdiffs=n,
\*                  tolerance=t)
NewHDUDiff ==
    /\ pc = "new"
    /\ cls = "HDUDiff"
    /\ \E k \in HDUIgnoreKeywords, f \in HDUIgnoreFields, n \in Caps,
          t \in TableTolerances :
          /\ cfg' = [cfg EXCEPT !.ignore_keywords = k, !.ignore_fields = f,
                                !.numdiffs = n, !.tolerance = t]
          /\ result' \in HDUDiff(a, b, k, cfg.ignore_comments, f, n, t,
                                 cfg.ignore_blanks)
    /\ pc' = "built"
    /\ UNCHANGED <<cls, a, b, ret>>

\* result = FITSDiff(a, b, ignore_fields=f, numdiffs=n, tolerance=t)
NewFITSDiff ==
    /\ pc = "new"
    /\ cls = "FITSDiff"
    /\ \E f \in HDUIgnoreFields, n \in Caps, t \in TableTolerances :
          /\ cfg' = [cfg EXCEPT !.ignore_fields = f, !.numdiffs = n,
                                !.tolerance = t]
          /\ result' \in FITSDiff(a, b, cfg.ignore_keywords, cfg.ignore_comments,
                                  f, n, t, cfg.ignore_blanks)
    /\ pc' = "built"
    /\ UNCHANGED <<cls, a, b, ret>>

\* ret = result.identical
GetIdentical ==
    /\ pc = "built"
    /\ result.cls # "Raised"
    /\ ret' = [op |-> "identical", value |-> identical(result)]
    /\ UNCHANGED <<cls, a, b, cfg, result, pc>>

\* ret = bool(result)
ToBool ==
    /\ pc = "built"
    /\ result.cls # "Raised"
    /\ ret' = [op |-> "bool", value |-> __nonzero__(result)]
    /\ UNCHANGED <<cls, a, b, cfg, result, pc>>

\* Two objects of a kind, and the comparator to build from them.
Init ==
    /\ cls \in {"ImageDataDiff", "RawDataDiff", "TableDataDiff", "HeaderDiff",
                "HDUDiff", "FITSDiff"}
    /\ \E p \in (CASE cls = "ImageDataDiff" -> SampleImages \X SampleImages
                    [] cls = "RawDataDiff" -> SampleBytes \X SampleBytes
                    [] cls = "TableDataDiff" ->
                         {q \in SampleTables \X SampleTables : SameRows(q[1], q[2])}
                    [] cls = "HeaderDiff" -> HeaderPairs
                    [] cls = "HDUDiff" -> HDUPairs
                    [] cls = "FITSDiff" -> HDUListPairs) :
          a = p[1] /\ b = p[2]
    /\ cfg = DefaultCfg
    /\ result = Unbuilt
    /\ ret = NoRet
    /\ pc = "new"

Next ==
    \/ NewImageDataDiff
    \/ NewRawDataDiff
    \/ NewTableDataDiff
    \/ NewHeaderDiff
    \/ NewHDUDiff
    \/ NewFITSDiff
    \/ GetIdentical
    \/ ToBool

Spec == Init /\ [][Next]_vars

(***************************************************************************)
(* Properties of the data diffs.                                           *)
(***************************************************************************)
Built == pc = "built"

\* A fraction r1 is at most a fraction r2 (denominators positive).
RatLeq(r1, r2) == r1.num * r2.den <= r2.num * r1.den

\* Whether ImageDataDiff is to count position p (0-based, row-major) of the
\* equal-shape arrays x and y under the relative tolerance t: the elements
\* are unequal when neither array is floating point, and further apart than
\* t times |y[p]| otherwise.
PixelDiffers(x, y, t, p) ==
    IF x.dtype = "int" /\ y.dtype = "int"
    THEN x.flat[p + 1] # y.flat[p + 1]
    ELSE Abs(x.flat[p + 1] - y.flat[p + 1]) * t.den > t.num * Abs(y.flat[p + 1])

DifferingPositions(x, y, t) ==
    {p \in 0..(Len(x.flat) - 1) : PixelDiffers(x, y, t, p)}

\* C3: for two arrays of the same shape and a cap >= 0, diff_pixels has
\* min(cap, diff_total) entries, and all diff_total of them for a negative
\* cap; the entries are the first differing positions in row-major order:
\* each is a differing position paired with the two elements there, they
\* ascend in row-major order and no differing position before the last
\* entry is left out.
C3_PixelsAreFirstDifferences ==
    (Built /\ cls = "ImageDataDiff" /\ a.shape = b.shape) =>
        LET pixels == result.diff_pixels
            differing == DifferingPositions(a, b, cfg.tolerance)
            at(k) == Ravel(pixels[k][1], a.shape)
        IN  /\ result.diff_total = Cardinality(differing)
            /\ Len(pixels) = (IF cfg.numdiffs < 0 THEN result.diff_total
                              ELSE Min(cfg.numdiffs, result.diff_total))
            /\ \A k \in 1..Len(pixels) :
                  /\ at(k) \in differing
                  /\ pixels[k][1] = Unravel(at(k), a.shape)
                  /\ pixels[k][2] = <<a.flat[at(k) + 1], b.flat[at(k) + 1]>>
                  /\ k > 1 => at(k - 1) < at(k)
                  /\ Cardinality({p \in differing : p < at(k)}) = k - 1

\* Witness of C3: a two-row image with more differences than the cap keeps.
C3_Witness ==
    /\ Built /\ cls = "ImageDataDiff" /\ a.shape = <<2, 2>> /\ b.shape = <<2, 2>>
    /\ cfg.numdiffs = 2 /\ result.diff_total = 3
    /\ Len(result.diff_pixels) = 2

\* C4: for a cap >= 0, diff_values holds min(cap, diff_total) samples.
C4_TableSamplesAreMinCapTotal ==
    (Built /\ result.cls = "TableDataDiff" /\ cfg.numdiffs >= 0) =>
        Len(result.diff_values) = Min(cfg.numdiffs, result.diff_total)

\* C5: the cap changes neither diff_total nor diff_ratio: whatever the cap,
\* the two values are those of the same data diff built from the same inputs
\* with no cap (numdiffs = -1), so they are the same for every cap.
C5_TotalAndRatioIgnoreCap ==
    Built =>
        /\ cls = "ImageDataDiff" =>
              LET uncapped == ImageDataDiff(a, b, -1, cfg.tolerance)
              IN  /\ result.diff_total = uncapped.diff_total
                  /\ result.diff_ratio = uncapped.diff_ratio
        /\ cls = "TableDataDiff" =>
              LET uncapped == CHOOSE r \in TableDataDiff(a, b, cfg.ignore_fields, -1,
                                                        cfg.tolerance) : TRUE
              IN  /\ result.cls = uncapped.cls
                  /\ result.cls = "TableDataDiff" =>
                        /\ result.diff_total = uncapped.diff_total
                        /\ result.diff_ratio = uncapped.diff_ratio

\* Witness of C5: a table diff whose cap kept fewer samples than there are
\* differences, in more than one column.
C5_Witness ==
    /\ Built /\ result.cls = "TableDataDiff"
    /\ cfg.numdiffs = 1 /\ result.diff_total = 3
    /\ Len(result.common_columns) = 2

\* C8: two arrays of different shapes give a non-empty diff_dimensions, no
\* samples, diff_total 0 and diff_ratio 0.
C8_ShapeMismatchStops ==
    (Built /\ cls \in {"ImageDataDiff", "RawDataDiff"} /\ a.shape # b.shape) =>
        /\ Len(result.diff_dimensions) > 0
        /\ (IF cls = "ImageDataDiff" THEN result.diff_pixels ELSE result.diff_bytes) = <<>>
        /\ result.diff_total = 0
        /\ result.diff_ratio.num = 0

\* Witness of C8: raw data of different sizes, all of whose bytes differ.
C8_Witness ==
    /\ Built /\ cls = "RawDataDiff" /\ a.shape = <<2>> /\ b.shape = <<1>>
    /\ result.diff_dimensions = <<2, 1>>

\* C9: a larger relative tolerance never gives a larger diff_total.
C9_ToleranceMonotone ==
    (Built /\ cls = "ImageDataDiff" /\ a.shape = b.shape) =>
        \A t \in Tolerances :
            RatLeq(cfg.tolerance, t) =>
                ImageDataDiff(a, b, cfg.numdiffs, t).diff_total <= result.diff_total

\* Witness of C9: a floating point image where a larger tolerance removes
\* some differences and leaves others.
C9_Witness ==
    /\ Built /\ cls = "ImageDataDiff" /\ a.shape = b.shape /\ a.dtype = "float"
    /\ cfg.tolerance = Zero
    /\ result.diff_total = 2
    /\ ImageDataDiff(a, b, cfg.numdiffs, Rat(1, 2)).diff_total = 1
    /\ ImageDataDiff(a, b, cfg.numdiffs, Rat(1, 1)).diff_total = 0

\* The tolerance t is at least the largest relative deviation
\* |x[i] - y[i]| / |y[i]| of the equal-shape arrays x and y.
CoversMaxDeviation(x, y, t) ==
    \A p \in 1..Len(x.flat) :
        Abs(x.flat[p] - y.flat[p]) * t.den <= t.num * Abs(y.flat[p])

\* C10 as claimed: for arrays of any element type, a tolerance at least the
\* largest relative deviation gives diff_total = 0.
C10_CoveringToleranceAnyType ==
    (Built /\ cls = "ImageDataDiff" /\ a.shape = b.shape
           /\ CoversMaxDeviation(a, b, cfg.tolerance)) =>
        result.diff_total = 0

\* C10 as amended: the same when at least one of the arrays is floating
\* point or complex; when neither is, the tolerance is not used.
C10_CoveringToleranceInexact ==
    (Built /\ cls = "ImageDataDiff" /\ a.shape = b.shape
           /\ (a.dtype # "int" \/ b.dtype # "int")
           /\ CoversMaxDeviation(a, b, cfg.tolerance)) =>
        result.diff_total = 0

\* Witness of C10: unequal arrays, one of them floating point, within the
\* tolerance.
C10_Witness ==
    /\ Built /\ cls = "ImageDataDiff" /\ a.shape = b.shape
    /\ a.dtype = "int" /\ b.dtype = "float"
    /\ \E p \in 1..Len(a.flat) : a.flat[p] # b.flat[p]
    /\ \E p \in 1..Len(a.flat) : a.flat[p] = b.flat[p]
    /\ cfg.tolerance = Rat(1, 2)
    /\ CoversMaxDeviation(a, b, cfg.tolerance)
    /\ result.diff_total = 0

(***************************************************************************)
(* Properties of identical, of the boolean conversion and of HDUDiff.      *)
(***************************************************************************)
\* A nested diff counts as empty when it is absent or itself identical.
NestedEmpty(d) == d.cls = "None" \/ identical(d)

\* Every diff_* field of a diff object is empty: the empty tuple, list or
\* dict, zero, None, or an identical nested diff.
AllFieldsEmpty(self) ==
    CASE self.cls = "ImageDataDiff" ->
           /\ self.diff_dimensions = <<>> /\ self.diff_pixels = <<>>
           /\ self.diff_total = 0 /\ self.diff_ratio.num = 0
      [] self.cls = "RawDataDiff" ->
           /\ self.diff_dimensions = <<>> /\ self.diff_bytes = <<>>
           /\ self.diff_total = 0 /\ self.diff_ratio.num = 0
      [] self.cls = "TableDataDiff" ->
           /\ self.diff_column_count = <<>> /\ self.diff_columns = <<>>
           /\ self.diff_column_names = <<>> /\ self.diff_values = <<>>
           /\ self.diff_total = 0 /\ self.diff_ratio.num = 0
      [] self.cls = "HeaderDiff" ->
           /\ self.diff_keyword_count = <<>> /\ self.diff_keyword_positions = <<>>
           /\ self.diff_keywords = <<>>
           /\ DOMAIN self.diff_duplicate_keywords = {}
           /\ DOMAIN self.diff_keyword_values = {}
           /\ DOMAIN self.diff_keyword_comments = {}
      [] self.cls = "HDUDiff" ->
           /\ self.diff_extnames = <<>> /\ self.diff_extvers = <<>>
           /\ self.diff_extension_types = <<>>
           /\ NestedEmpty(self.diff_headers)
           /\ NestedEmpty(self.diff_data)
      [] self.cls = "FITSDiff" ->
           /\ self.diff_hdu_count = <<>> /\ self.diff_hdus = <<>>

\* The diff objects nested in a diff object, at any depth.
NestedDiffs(self) ==
    CASE self.cls = "HDUDiff" ->
           {d \in {self.diff_headers, self.diff_data} : d.cls # "None"}
      [] self.cls = "FITSDiff" ->
           UNION {LET h == self.diff_hdus[k][2]
                  IN  {h} \cup {d \in {h.diff_headers, h.diff_data} : d.cls # "None"} :
                     k \in 1..Len(self.diff_hdus)}
      [] OTHER -> {}

\* C1: identical is true exactly when every diff_* field of the diff object
\* is empty, a nested diff counting as empty exactly when it is absent or
\* itself identical; this for the object asked and for the diffs nested in it.
C1_IdenticalIffAllFieldsEmpty ==
    (Built /\ ret.op = "identical") =>
        /\ ret.value = AllFieldsEmpty(result)
        /\ \A d \in NestedDiffs(result) : identical(d) = AllFieldsEmpty(d)

\* C1 witness: an HDUDiff that is identical although it holds a header diff
\* and an image data diff, both identical themselves.
C1_Witness ==
    /\ Built /\ cls = "HDUDiff" /\ ret.op = "identical" /\ ret.value
    /\ result.diff_headers.cls = "HeaderDiff"
    /\ result.diff_data.cls = "ImageDataDiff"

\* C2: in a boolean context a diff object is True if the two objects
\* compared are identical and False otherwise.
C2_TrueWhenIdentical ==
    (Built /\ ret.op = "bool") => ret.value = identical(result)

\* The HDUDiff objects of the result with the two HDUs each compared.
HDUDiffsOfResult ==
    CASE result.cls = "HDUDiff" -> {<<result, a, b>>}
      [] result.cls = "FITSDiff" ->
           {<<result.diff_hdus[k][2], a[result.diff_hdus[k][1] + 1],
              b[result.diff_hdus[k][1] + 1]>> : k \in 1..Len(result.diff_hdus)}
      [] OTHER -> {}

\* The samples a data diff kept.
Samples(d) ==
    CASE d.cls = "TableDataDiff" -> d.diff_values
      [] d.cls = "RawDataDiff" -> d.diff_bytes
      [] d.cls = "ImageDataDiff" -> d.diff_pixels

\* C6: the data diff an HDUDiff builds uses the HDUDiff's cap and
\* tolerance: with a cap n >= 0 it keeps at most n samples, with a negative
\* cap every difference, and a table's columns are compared with the
\* configured tolerance.
C6_DataDiffUsesConfiguration ==
    Built =>
        \A h \in HDUDiffsOfResult :
            LET d == h[1].diff_data
            IN  d.cls # "None" =>
                  /\ cfg.numdiffs >= 0 => Len(Samples(d)) <= cfg.numdiffs
                  /\ cfg.numdiffs < 0 => Len(Samples(d)) = d.diff_total
                  /\ d.cls = "TableDataDiff" =>
                        d.diff_total =
                            (CHOOSE r \in TableDataDiff(h[2].data, h[3].data,
                                                        d.ignore_fields, cfg.numdiffs,
                                                        cfg.tolerance) : TRUE).diff_total

\* C7: a column whose lower-cased name is in the lower-cased ignore_fields
\* given to FITSDiff or HDUDiff contributes nothing to the table data diff:
\* no sample, no name, and nothing to the count.
C7_IgnoredFieldContributesNothing ==
    Built =>
        \A h \in HDUDiffsOfResult :
            LET d == h[1].diff_data
                ignored == {Lower(f) : f \in cfg.ignore_fields}
            IN  d.cls = "TableDataDiff" =>
                  /\ \A k \in 1..Len(d.diff_values) :
                        Lower(d.diff_values[k][1][1]) \notin ignored
                  /\ \A side \in 1..Len(d.diff_column_names) :
                        \A k \in 1..Len(d.diff_column_names[side]) :
                            Lower(d.diff_column_names[side][k]) \notin ignored
                  /\ d.diff_total =
                        (CHOOSE r \in TableDataDiff(h[2].data, h[3].data,
                                                    cfg.ignore_fields, d.numdiffs,
                                                    d.tolerance) : TRUE).diff_total

(***************************************************************************)
(* Reflexivity.                                                            *)
(***************************************************************************)
\* C11: the diff of an object with itself (or with an equal copy) is built
\* and is identical, for every comparator and every configuration.
C11_SelfDiffIsIdentical ==
    (Built /\ a = b) => (result.cls # "Raised" /\ identical(result))

\* Apart from the tables without rows, whose diff raises, the diff of an
\* object with itself is identical.
SelfDiffIsIdenticalUnlessRaised ==
    (Built /\ a = b /\ result.cls # "Raised") => identical(result)

(***************************************************************************)
(* HeaderDiff alone, with more ignore sets: exact keywords, wildcard       *)
(* patterns, both together, and '*'.                                       *)
(***************************************************************************)
AllIgnoreKeywords ==
    {{}, {"NAXIS"}, {"NAXIS*"}, {"NAXIS*", "NAXIS1"}, {"NAXIS?"},
     {"NAXIS?", "NAXIS1"}, {"*"}}

AllIgnoreComments == {{}, {"NAXIS"}, {"H*"}, {"NAXIS*"}, {"NAXIS?"}, {"*"}}

\* result = HeaderDiff(a, b, ignore_keywords=k, ignore_comments=c,
\*                     tolerance=t, ignore_blanks=w)
NewHeaderDiffWithPatterns ==
    /\ pc = "new"
    /\ cls = "HeaderDiff"
    /\ \E k \in AllIgnoreKeywords, c \in AllIgnoreComments,
          t \in TableTolerances, w \in BOOLEAN :
          /\ cfg' = [cfg EXCEPT !.ignore_keywords = k, !.ignore_comments = c,
                                !.tolerance = t, !.ignore_blanks = w]
          /\ result' = HeaderDiff(a, b, k, c, t, w)
    /\ pc' = "built"
    /\ UNCHANGED <<cls, a, b, ret>>

\* Two headers to build a HeaderDiff from.
InitHeader ==
    /\ cls = "HeaderDiff"
    /\ \E p \in HeaderPairs : a = p[1] /\ b = p[2]
    /\ cfg = DefaultCfg
    /\ result = Unbuilt
    /\ ret = NoRet
    /\ pc = "new"

NextHeader == NewHeaderDiffWithPatterns

SpecHeader == InitHeader /\ [][NextHeader]_vars

(***************************************************************************)
(* Properties of HeaderDiff.                                               *)
(***************************************************************************)
\* The keywords of a header.
Keywords(header) == {header[i].keyword : i \in 1..Len(header)}

\* The number of cards of a keyword in a header.
Count(header, keyword) ==
    Cardinality({i \in 1..Len(header) : header[i].keyword = keyword})

\* A keyword is ignored by a set of names and patterns: the set holds it,
\* or holds a wildcard pattern ('*' among them) that matches it.
IgnoredBy(keyword, ignore) ==
    \/ keyword \in ignore
    \/ \E pattern \in ignore : has_magic(pattern) /\ fnmatch(keyword, pattern)

\* The keys of the dict-valued fields and the keys listed as being in one
\* header only.
ReportedKeywords(self) ==
    DOMAIN self.diff_duplicate_keywords
    \cup DOMAIN self.diff_keyword_values
    \cup DOMAIN self.diff_keyword_comments
    \cup UNION {Range(self.diff_keywords[side]) : side \in 1..Len(self.diff_keywords)}

\* C12: with '*' in ignore_keywords the keys-only, duplicate-count, value
\* and comment fields are empty whatever the headers hold, and the key
\* count mismatch is recorded exactly when the headers differ in length.
C12_StarIgnoresAllButCount ==
    (Built /\ cls = "HeaderDiff" /\ "*" \in cfg.ignore_keywords) =>
        /\ result.diff_keywords = <<>>
        /\ DOMAIN result.diff_duplicate_keywords = {}
        /\ DOMAIN result.diff_keyword_values = {}
        /\ DOMAIN result.diff_keyword_comments = {}
        /\ Len(a) # Len(b) => result.diff_keyword_count = <<Len(a), Len(b)>>
        /\ Len(a) = Len(b) => result.diff_keyword_count = <<>>

\* C12 witness: '*' is ignored, the headers differ in a value and in
\* length, and only the lengths are recorded.
C12_Witness ==
    /\ Built /\ cls = "HeaderDiff" /\ cfg.ignore_keywords = {"*"}
    /\ Len(a) = 2 /\ Len(b) = 1 /\ Keywords(a) # Keywords(b)
    /\ result.diff_keyword_count = <<2, 1>>
    /\ ~identical(result)

\* What a HeaderDiff found: common_keywords and the diff_* fields.
Findings(self) ==
    [common_keywords |-> self.common_keywords,
     diff_keyword_count |-> self.diff_keyword_count,
     diff_keyword_positions |-> self.diff_keyword_positions,
     diff_keywords |-> self.diff_keywords,
     diff_duplicate_keywords |-> self.diff_duplicate_keywords,
     diff_keyword_values |-> self.diff_keyword_values,
     diff_keyword_comments |-> self.diff_keyword_comments]

\* The exact keywords of an ignore set that a wildcard pattern of the same
\* set matches already.
AlreadyMatched(ignore) ==
    {k \in ignore :
        /\ ~has_magic(k)
        /\ \E pattern \in ignore : has_magic(pattern) /\ fnmatch(k, pattern)}

\* C13: an exact keyword in ignore_keywords that a wildcard pattern of the
\* set matches already changes nothing: the HeaderDiff finds what it finds
\* without that keyword in the set.
C13_KeyCoveredByPatternIsRedundant ==
    (Built /\ cls = "HeaderDiff") =>
        \A k \in AlreadyMatched(cfg.ignore_keywords) :
            Findings(result) =
                Findings(HeaderDiff(a, b, cfg.ignore_keywords \ {k},
                                    cfg.ignore_comments, cfg.tolerance,
                                    cfg.ignore_blanks))

\* C13 witness: NAXIS1 is ignored by name and by the pattern NAXIS*, and is
\* in the first header only.
C13_Witness ==
    /\ Built /\ cls = "HeaderDiff"
    /\ cfg.ignore_keywords = {"NAXIS*", "NAXIS1"}
    /\ "NAXIS1" \in Keywords(a) \ Keywords(b)
    /\ "HISTORY" \in Keywords(b) \ Keywords(a)
    /\ result.diff_keywords = <<<<>>, <<"HISTORY">>>>

\* A list of keywords is in strictly ascending string order.
Ascending(q) ==
    \A i \in 1..Len(q) : \A j \in (i + 1)..Len(q) :
        StrLess(KeywordChars[q[i]], KeywordChars[q[j]])

\* The keywords of header x that header y lacks and the ignore set spares.
OnlyIn(x, y, ignore) ==
    {k \in Keywords(x) \ Keywords(y) : ~IgnoredBy(k, ignore)}

\* C14: diff_keywords lists, in ascending order, exactly the keywords that
\* are in one header and not in the other once the ignored keywords (named
\* in ignore_keywords or matched by a wildcard pattern of it) are removed;
\* it is empty when there is none; and no ignored keyword is in
\* diff_keywords, diff_duplicate_keywords, diff_keyword_values or
\* diff_keyword_comments.
C14_KeysOnlyInOneSide ==
    (Built /\ cls = "HeaderDiff") =>
        LET left == OnlyIn(a, b, cfg.ignore_keywords)
            right == OnlyIn(b, a, cfg.ignore_keywords)
        IN  /\ (left = {} /\ right = {}) => result.diff_keywords = <<>>
            /\ (left # {} \/ right # {}) =>
                  /\ Len(result.diff_keywords) = 2
                  /\ Range(result.diff_keywords[1]) = left
                  /\ Range(result.diff_keywords[2]) = right
                  /\ Ascending(result.diff_keywords[1])
                  /\ Ascending(result.diff_keywords[2])
            /\ \A k \in ReportedKeywords(result) :
                  ~IgnoredBy(k, cfg.ignore_keywords)

\* C14 witness: two keywords in the first header only, not in ascending
\* order there, listed in ascending order; the keyword of the second header
\* is ignored by a pattern and not listed.
C14_Witness ==
    /\ Built /\ cls = "HeaderDiff" /\ cfg.ignore_keywords = {"NAXIS?"}
    /\ Len(a) = 2 /\ a[1].keyword = "NAXIS" /\ a[2].keyword = "HISTORY"
    /\ Len(b) = 1 /\ b[1].keyword = "NAXIS1"
    /\ result.diff_keywords = <<<<"HISTORY", "NAXIS">>, <<>>>>

\* C15: a keyword common to both headers and not ignored is a key of
\* diff_duplicate_keywords exactly when the two headers hold it a different
\* number of times, and then with the pair of the two numbers; and
\* diff_keyword_count is the pair of the two lengths exactly when the
\* headers differ in length.
C15_DuplicateAndCardCounts ==
    (Built /\ cls = "HeaderDiff") =>
        /\ \A k \in Keywords(a) \cap Keywords(b) :
              ~IgnoredBy(k, cfg.ignore_keywords) =>
                  /\ k \in DOMAIN result.diff_duplicate_keywords
                        <=> Count(a, k) # Count(b, k)
                  /\ k \in DOMAIN result.diff_duplicate_keywords =>
                        result.diff_duplicate_keywords[k] = <<Count(a, k), Count(b, k)>>
        /\ Len(a) # Len(b) => result.diff_keyword_count = <<Len(a), Len(b)>>
        /\ Len(a) = Len(b) => result.diff_keyword_count = <<>>

\* C15 witness: two headers of two cards, NAXIS twice in the first and once
\* in the second.
C15_Witness ==
    /\ Built /\ cls = "HeaderDiff" /\ cfg.ignore_keywords = {}
    /\ Len(a) = 2 /\ Len(b) = 2
    /\ Count(a, "NAXIS") = 2 /\ Count(b, "NAXIS") = 1
    /\ result.diff_duplicate_keywords = [k \in {"NAXIS"} |-> <<2, 1>>]
    /\ result.diff_keyword_count = <<>>

(***************************************************************************)
(* Properties of HDUDiff and FITSDiff.                                     *)
(***************************************************************************)
\* The two HDUs have equal XTENSION values (both none included).
SameXtension(x, y) ==
    ~PyNe(Header_get(x.header, "XTENSION"), Header_get(y.header, "XTENSION"))

\* C16: an HDUDiff always holds a header diff; it holds a data diff only
\* when both HDUs have data: an image diff for two images, a table diff for
\* two tables, a raw diff only when neither HDU is an image or a table and
\* the XTENSION values are equal, and none in every other case.
C16_DataDiffByKind ==
    (Built /\ cls = "HDUDiff" /\ result.cls = "HDUDiff") =>
        /\ result.diff_headers.cls = "HeaderDiff"
        /\ result.diff_data.cls =
              IF a.data = None \/ b.data = None THEN "None"
              ELSE IF a.kind = "image" /\ b.kind = "image" THEN "ImageDataDiff"
              ELSE IF a.kind = "table" /\ b.kind = "table" THEN "TableDataDiff"
              ELSE IF a.kind = "other" /\ b.kind = "other" /\ SameXtension(a, b)
              THEN "RawDataDiff"
              ELSE "None"

\* The HDUDiff objects FITSDiff may build for the HDUs at position i
\* (counted from 0) with its own configuration.
UnitDiffs(i) ==
    HDUDiff(a[i + 1], b[i + 1], cfg.ignore_keywords, cfg.ignore_comments,
            cfg.ignore_fields, cfg.numdiffs, cfg.tolerance, cfg.ignore_blanks)

\* C17: diff_hdu_count is the pair of the two lengths exactly when the two
\* HDULists differ in length; diff_hdus holds, by ascending position, the
\* pair (i, HDUDiff(a[i], b[i])) for exactly the positions i below the
\* shorter length whose HDUDiff is not identical, and no other position.
C17_UnitsComparedByPosition ==
    (Built /\ cls = "FITSDiff" /\ result.cls = "FITSDiff") =>
        LET hdus == result.diff_hdus
            differing == {i \in 0..(Min(Len(a), Len(b)) - 1) :
                             \E d \in UnitDiffs(i) : ~identical(d)}
        IN  /\ Len(a) # Len(b) => result.diff_hdu_count = <<Len(a), Len(b)>>
            /\ Len(a) = Len(b) => result.diff_hdu_count = <<>>
            /\ {hdus[k][1] : k \in 1..Len(hdus)} = differing
            /\ \A k \in 1..Len(hdus) :
                  /\ hdus[k][2] \in UnitDiffs(hdus[k][1])
                  /\ ~identical(hdus[k][2])
                  /\ \A j \in (k + 1)..Len(hdus) : hdus[k][1] < hdus[j][1]

\* C17 witness: two lists of two HDUs whose first HDUs are equal and whose
\* second HDUs differ: only position 1 is recorded.
C17_Witness ==
    /\ Built /\ cls = "FITSDiff" /\ result.cls = "FITSDiff"
    /\ Len(a) = 2 /\ Len(b) = 2 /\ a[1] = b[1] /\ a[2] # b[2]
    /\ Len(result.diff_hdus) = 1 /\ result.diff_hdus[1][1] = 1
    /\ result.diff_hdu_count = <<>>

\* The value of the i-th card of a keyword in a header.
NthValue(header, keyword, i) ==
    SelectSeq(header, LAMBDA card : card.keyword = keyword)[i].value

\* String t is string s followed by blanks only.
WithBlanksAfter(s, t) ==
    /\ Len(s) < Len(t)
    /\ SubSeq(t, 1, Len(s)) = s
    /\ \A i \in (Len(s) + 1)..Len(t) : t[i] = " "

\* String t is string s after blanks only.
WithBlanksBefore(s, t) ==
    /\ Len(s) < Len(t)
    /\ SubSeq(t, Len(t) - Len(s) + 1, Len(t)) = s
    /\ \A i \in 1..(Len(t) - Len(s)) : t[i] = " "

\* diff_keyword_values reports a difference at position i of a keyword.
ValueReported(self, keyword, i) ==
    /\ keyword \in DOMAIN self.diff_keyword_values
    /\ self.diff_keyword_values[keyword][i] # <<>>

\* C18: where the string values of a compared keyword differ by trailing
\* blanks only, no difference is reported when ignore_blanks is true and
\* one is reported when it is false; a difference in leading blanks is
\* reported either way; and headers whose values differ in nothing but
\* trailing blanks have no value differences under ignore_blanks.
C18_TrailingBlanksIgnored ==
    (Built /\ cls = "HeaderDiff") =>
        LET compared == {k \in Keywords(a) \cap Keywords(b) :
                            ~IgnoredBy(k, cfg.ignore_keywords)}
            positions(k) == 1..Min(Count(a, k), Count(b, k))
            strings(k, i) == /\ NthValue(a, k, i).t = "str"
                             /\ NthValue(b, k, i).t = "str"
            trailing(k, i) ==
                /\ strings(k, i)
                /\ \/ WithBlanksAfter(NthValue(a, k, i).s, NthValue(b, k, i).s)
                   \/ WithBlanksAfter(NthValue(b, k, i).s, NthValue(a, k, i).s)
            leading(k, i) ==
                /\ strings(k, i)
                /\ \/ WithBlanksBefore(NthValue(a, k, i).s, NthValue(b, k, i).s)
                   \/ WithBlanksBefore(NthValue(b, k, i).s, NthValue(a, k, i).s)
        IN  /\ \A k \in compared : \A i \in positions(k) :
                  /\ trailing(k, i) =>
                        (ValueReported(result, k, i) <=> ~cfg.ignore_blanks)
                  /\ leading(k, i) => ValueReported(result, k, i)
            /\ ( /\ cfg.ignore_blanks
                 /\ \A k \in compared : \A i \in positions(k) :
                       NthValue(a, k, i) = NthValue(b, k, i) \/ trailing(k, i) )
               => DOMAIN result.diff_keyword_values = {}

\* C18 witness: the value 'v' against 'v ' under ignore_blanks, no value
\* difference.
C18_Witness ==
    /\ Built /\ cls = "HeaderDiff" /\ cfg.ignore_blanks /\ cfg.ignore_keywords = {}
    /\ Len(a) = 1 /\ Len(b) = 1
    /\ a[1].value = StrValue(<<"v">>) /\ b[1].value = StrValue(<<"v", " ">>)
    /\ DOMAIN result.diff_keyword_values = {}

\* The same two values without ignore_blanks, and 'v' against ' v' with it:
\* a value difference.
C18_Reported ==
    /\ Built /\ cls = "HeaderDiff" /\ cfg.ignore_keywords = {}
    /\ Len(a) = 1 /\ Len(b) = 1 /\ a[1].value = StrValue(<<"v">>)
    /\ \/ ~cfg.ignore_blanks /\ b[1].value = StrValue(<<"v", " ">>)
       \/ cfg.ignore_blanks /\ b[1].value = StrValue(<<" ", "v">>)
    /\ "NAXIS" \in DOMAIN result.diff_keyword_values

(***************************************************************************)
(* The objects the constructors write to.  The constructors read their     *)
(* inputs and write to sets only: the copies they take of the ignore       *)
(* collections and of the column lists.  A heap is the sequence of the     *)
(* sets allocated so far, a reference is an index into it.  The caller     *)
(* owns the first references: 1, 2 and 3 are the ignore_keywords,          *)
(* ignore_comments and ignore_fields collections it passes, then come the  *)
(* columns of each unit of a and the columns of each unit of b.            *)
(***************************************************************************)
\* Mutant: no copy is taken, the new name refers to the object given.
set_SameObject(heap, ref) == [heap |-> heap, ref |-> ref]

\* set(x): a new set holding the elements of the object x refers to.
set(heap, ref) == [heap |-> Append(heap, heap[ref]), ref |-> Len(heap) + 1]

\* x.remove(e) for every e of elems, on the object x refers to.
remove(heap, ref, elems) == [heap EXCEPT ![ref] = @ \ elems]

\* The references of the caller's ignore collections.
IgnoreKeywordsRef == 1

IgnoreCommentsRef == 2

IgnoreFieldsRef == 3

\* The units of an input: the HDUs of an HDUList, the HDU or table itself.
Units(class, obj) ==
    CASE class = "FITSDiff" -> obj
      [] class \in {"HDUDiff", "TableDataDiff"} -> <<obj>>
      [] OTHER -> <<>>

\* The table of a unit, None when it has none.
TableOf(class, unit) ==
    IF class = "TableDataDiff" THEN unit
    ELSE IF IsTableLikeHDU(unit) THEN unit.data ELSE None

\* The columns object of a unit (empty for a unit without table).
ColumnsObject(class, unit) ==
    IF TableOf(class, unit) = None THEN {}
    ELSE Range(TableOf(class, unit).columns)

\* The heap as the caller prepared it for the call.
CallerHeap(class, x, y, ignore_keywords, ignore_comments, ignore_fields) ==
    <<ignore_keywords, ignore_comments, ignore_fields>>
    \o [i \in 1..Len(Units(class, x)) |-> ColumnsObject(class, Units(class, x)[i])]
    \o [i \in 1..Len(Units(class, y)) |-> ColumnsObject(class, Units(class, y)[i])]

\* The reference of the columns of unit i (from 1) of a, and of b.
ColumnsRefA(class, x, i) == 3 + i

ColumnsRefB(class, x, i) == 3 + Len(Units(class, x)) + i

\* The writes of HeaderDiff.__init__: the two ignore collections are
\* copied and the wildcard patterns removed from the copies.
HeaderDiff_writes(heap, ignore_keywords, ignore_comments) ==
    LET keywords == set(heap, ignore_keywords)
        comments == set(keywords.heap, ignore_comments)
        magic(ref, h) == {k \in h[ref] : k # "*" /\ has_magic(k)}
        h1 == remove(comments.heap, keywords.ref, magic(keywords.ref, comments.heap))
    IN  remove(h1, comments.ref, magic(comments.ref, h1))

\* The writes of TableDataDiff.__init__ and _diff: ignore_fields and the
\* two column lists are copied, and the ignored columns removed from the
\* copies unless '*' is ignored.
TableDataDiff_writes(heap, ignore_fields, columnsa, columnsb) ==
    LET fields == set(heap, ignore_fields)
        colsa == set(fields.heap, columnsa)
        colsb == set(colsa.heap, columnsb)
        ignored(ref, h) ==
            {c \in h[ref] : Lower(c.name) \in {Lower(f) : f \in h[fields.ref]}}
        h1 == remove(colsb.heap, colsa.ref, ignored(colsa.ref, colsb.heap))
    IN  IF "*" \in colsb.heap[fields.ref] THEN colsb.heap
        ELSE remove(h1, colsb.ref, ignored(colsb.ref, h1))

\* The writes of HDUDiff.__init__ and _diff for the HDUs x and y whose
\* columns are at columnsa and columnsb: the three ignore collections are
\* copied, HeaderDiff is given the copies, and TableDataDiff, when built,
\* a new empty list for ignore_fields.
HDUDiff_writes(heap, x, y, ignore_keywords, ignore_comments, ignore_fields, columnsa, columnsb) ==
    LET keywords == set(heap, ignore_keywords)
        comments == set(keywords.heap, ignore_comments)
        fields == set(comments.heap, ignore_fields)
        h1 == HeaderDiff_writes(fields.heap, keywords.ref, comments.ref)
        default == Append(h1, {})
    IN  IF /\ x.data # None /\ y.data # None
           /\ ~(is_image(x) /\ is_image(y))
           /\ IsTableLikeHDU(x) /\ IsTableLikeHDU(y)
        THEN TableDataDiff_writes(default, Len(default), columnsa, columnsb)
        ELSE h1

\* The writes of the loop of FITSDiff._diff from index idx on.
RECURSIVE FITSDiff_loop_writes(_, _, _, _, _, _, _)
FITSDiff_loop_writes(heap, x, y, keywords, comments, fields, idx) ==
    IF idx >= Min(Len(x), Len(y)) THEN heap
    ELSE FITSDiff_loop_writes(
             HDUDiff_writes(heap, x[idx + 1], y[idx + 1], keywords, comments, fields,
                            ColumnsRefA("FITSDiff", x, idx + 1),
                            ColumnsRefB("FITSDiff", x, idx + 1)),
             x, y, keywords, comments, fields, idx + 1)

\* The writes of FITSDiff.__init__ and _diff: the three ignore collections
\* are copied and every HDUDiff is given the copies.
FITSDiff_writes(heap, x, y, ignore_keywords, ignore_comments, ignore_fields) ==
    LET keywords == set(heap, ignore_keywords)
        comments == set(keywords.heap, ignore_comments)
        fields == set(comments.heap, ignore_fields)
    IN  FITSDiff_loop_writes(fields.heap, x, y, keywords.ref, comments.ref,
                             fields.ref, 0)

\* The heap after the constructor of the class has run on the caller's heap.
Constructor_writes(class, x, y, heap) ==
    CASE class = "HeaderDiff" ->
           HeaderDiff_writes(heap, IgnoreKeywordsRef, IgnoreCommentsRef)
      [] class = "TableDataDiff" ->
           TableDataDiff_writes(heap, IgnoreFieldsRef,
                                ColumnsRefA(class, x, 1), ColumnsRefB(class, x, 1))
      [] class = "HDUDiff" ->
           HDUDiff_writes(heap, x, y, IgnoreKeywordsRef, IgnoreCommentsRef,
                          IgnoreFieldsRef,
                          ColumnsRefA(class, x, 1), ColumnsRefB(class, x, 1))
      [] class = "FITSDiff" ->
           FITSDiff_writes(heap, x, y, IgnoreKeywordsRef, IgnoreCommentsRef,
                           IgnoreFieldsRef)


(***************************************************************************)
(* The constructors seen from the caller: the call builds the diff object  *)
(* and leaves in ret the caller's own objects as they are after the call.  *)
(***************************************************************************)
\* Ignore collections tried with HDUDiff and FITSDiff.
FrameIgnoreKeywords == {{}, {"NAXIS*", "NAXIS1"}}

FrameIgnoreComments == {{}, {"H*"}}

\* The caller's objects after the constructor has run on them.
CallerObjectsAfter(class, x, y, k, c, f) ==
    LET heap == CallerHeap(class, x, y, k, c, f)
    IN  SubSeq(Constructor_writes(class, x, y, heap), 1, Len(heap))

\* result = HeaderDiff(a, b, ignore_keywords=k, ignore_comments=c)
CallHeaderDiff ==
    /\ pc = "new"
    /\ cls = "HeaderDiff"
    /\ \E k \in AllIgnoreKeywords, c \in AllIgnoreComments :
          /\ cfg' = [cfg EXCEPT !.ignore_keywords = k, !.ignore_comments = c]
          /\ result' = HeaderDiff(a, b, k, c, cfg.tolerance, cfg.ignore_blanks)
          /\ ret' = [op |-> "call",
                     value |-> CallerObjectsAfter(cls, a, b, k, c, cfg.ignore_fields)]
    /\ pc' = "built"
    /\ UNCHANGED <<cls, a, b>>

\* result = TableDataDiff(a, b, ignore_fields=f)
CallTableDataDiff ==
    /\ pc = "new"
    /\ cls = "TableDataDiff"
    /\ \E f \in IgnoreFieldSets :
          /\ cfg' = [cfg EXCEPT !.ignore_fields = f]
          /\ result' \in TableDataDiff(a, b, f, cfg.numdiffs, cfg.tolerance)
          /\ ret' = [op |-> "call",
                     value |-> CallerObjectsAfter(cls, a, b, cfg.ignore_keywords,
                                                  cfg.ignore_comments, f)]
    /\ pc' = "built"
    /\ UNCHANGED <<cls, a, b>>

\* result = HDUDiff(a, b, ignore_keywords=k, ignore_comments=c, ignore_fields=f)
CallHDUDiff ==
    /\ pc = "new"
    /\ cls = "HDUDiff"
    /\ \E k \in FrameIgnoreKeywords, c \in FrameIgnoreComments,
          f \in HDUIgnoreFields :
          /\ cfg' = [cfg EXCEPT !.ignore_keywords = k, !.ignore_comments = c,
                                !.ignore_fields = f]
          /\ result' \in HDUDiff(a, b, k, c, f, cfg.numdiffs, cfg.tolerance,
                                 cfg.ignore_blanks)
          /\ ret' = [op |-> "call", value |-> CallerObjectsAfter(cls, a, b, k, c, f)]
    /\ pc' = "built"
    /\ UNCHANGED <<cls, a, b>>

\* result = FITSDiff(a, b, ignore_keywords=k, ignore_comments=c, ignore_fields=f)
CallFITSDiff ==
    /\ pc = "new"
    /\ cls = "FITSDiff"
    /\ \E k \in FrameIgnoreKeywords, c \in FrameIgnoreComments,
          f \in HDUIgnoreFields :
          /\ cfg' = [cfg EXCEPT !.ignore_keywords = k, !.ignore_comments = c,
                                !.ignore_fields = f]
          /\ result' \in FITSDiff(a, b, k, c, f, cfg.numdiffs, cfg.tolerance,
                                  cfg.ignore_blanks)
          /\ ret' = [op |-> "call", value |-> CallerObjectsAfter(cls, a, b, k, c, f)]
    /\ pc' = "built"
    /\ UNCHANGED <<cls, a, b>>

\* Two inputs of a class whose constructor takes collections or tables.
InitFrame ==
    /\ cls \in {"TableDataDiff", "HeaderDiff", "HDUDiff", "FITSDiff"}
    /\ \E p \in (CASE cls = "TableDataDiff" ->
                         {q \in SampleTables \X SampleTables : SameRows(q[1], q[2])}
                    [] cls = "HeaderDiff" -> HeaderPairs
                    [] cls = "HDUDiff" -> HDUPairs
                    [] cls = "FITSDiff" -> HDUListPairs) :
          a = p[1] /\ b = p[2]
    /\ cfg = DefaultCfg
    /\ result = Unbuilt
    /\ ret = NoRet
    /\ pc = "new"

NextFrame ==
    \/ CallHeaderDiff
    \/ CallTableDataDiff
    \/ CallHDUDiff
    \/ CallFITSDiff

SpecFrame == InitFrame /\ [][NextFrame]_vars

\* C19: constructing a diff object leaves the caller's objects as they
\* were: after the call the ignore_keywords, ignore_comments and
\* ignore_fields collections passed in, wildcard patterns included, and the
\* columns of every table compared hold what they held before, and the
\* headers, tables and unit lists in a and b are the ones given.
C19_InputsNotModified ==
    ret.op = "call" =>
        ret.value = CallerHeap(cls, a, b, cfg.ignore_keywords,
                               cfg.ignore_comments, cfg.ignore_fields)

\* C19 witness: an HDUDiff of two table HDUs with data was built with an
\* ignore_keywords collection holding a wildcard pattern and a field to
\* ignore, and the caller's collections were read back.
C19_Witness ==
    /\ ret.op = "call"
    /\ cls = "HDUDiff"
    /\ result.cls = "HDUDiff"
    /\ result.diff_data # None
    /\ IsTableLikeHDU(a) /\ IsTableLikeHDU(b)
    /\ "NAXIS*" \in cfg.ignore_keywords
    /\ "NAXIS*" \in ret.value[IgnoreKeywordsRef]
    /\ "FLUX" \in cfg.ignore_fields
    /\ Len(ret.value) = 5


(***************************************************************************)
(* Properties of TableDataDiff on tables with different columns.           *)
(***************************************************************************)
\* A column is left out of the comparison by ignore_fields.
IgnoredField(col) == Lower(col.name) \in {Lower(f) : f \in cfg.ignore_fields}

\* The table has a column of this name (case-insensitively).
HasColumn(table, col) ==
    \E k \in 1..Len(table.columns) : Lower(table.columns[k].name) = Lower(col.name)

\* The names of the columns of table x that table y lacks, in the order of
\* x, the ignored columns left out.
UniqueColumnNames(x, y) ==
    LET unique(col) == ~IgnoredField(col) /\ ~HasColumn(y, col)
        cols == SelectSeq(x.columns, unique)
    IN  [k \in 1..Len(cols) |-> cols[k].name]

\* The columns of a that b has too, the ignored columns left out.
SharedColumns == {col \in Range(a.columns) : ~IgnoredField(col) /\ HasColumn(b, col)}

\* The (column, row) places where a column of both tables differs.
SharedDifferences ==
    UNION {{<<Lower(col.name), idx>> :
               idx \in Range(ColumnDiffRows(col, a, b, cfg.tolerance))} :
           col \in SharedColumns}

\* C20: when TableDataDiff is built from two tables of which one has a
\* column the other lacks ('*' not ignored), diff_column_names lists, for
\* each side, the names of that side's columns the other side lacks, in that
\* table's column order (the columns named in ignore_fields left out); the
\* columns common to both are still compared, diff_total counting every row
\* where one of them differs; and every sample of diff_values comes from a
\* common column, none from a column only one side has.
C20_UniqueColumnsListedCommonCompared ==
    (/\ Built
     /\ result.cls = "TableDataDiff"
     /\ "*" \notin cfg.ignore_fields
     /\ UniqueColumnNames(a, b) \o UniqueColumnNames(b, a) # <<>>) =>
        /\ result.diff_column_names =
               <<UniqueColumnNames(a, b), UniqueColumnNames(b, a)>>
        /\ result.diff_total = Cardinality(SharedDifferences)
        /\ \A k \in 1..Len(result.diff_values) :
               /\ Lower(result.diff_values[k][1][1]) \in
                      {Lower(col.name) : col \in SharedColumns}
               /\ result.diff_values[k][1][1] \notin
                      Range(UniqueColumnNames(a, b) \o UniqueColumnNames(b, a))

\* C20 witness: a table with the columns X and Flux was compared with a
\* table that has Flux and V; X and V are listed, each on its side, and the
\* differing values of Flux are sampled.
C20_Witness ==
    /\ Built
    /\ result.cls = "TableDataDiff"
    /\ cfg.ignore_fields = {}
    /\ result.diff_column_names = <<<<"X">>, <<"V">>>>
    /\ Len(a.columns) = 2 /\ a.columns[2].name = "Flux"
    /\ Len(result.diff_values) > 0
    /\ result.diff_values[1][1][1] = "Flux"
    /\ result.diff_total > 0

\* C20 witness of the order: both columns of a are missing from b and are
\* listed in the order a has them.
C20_TwoUnique ==
    /\ Built
    /\ result.cls = "TableDataDiff"
    /\ Len(result.diff_column_names) = 2
    /\ result.diff_column_names[1] = <<"X", "Flux">>


(***************************************************************************)
(* StreamingHDU.  The file is the sequence of the HDUs written to it, each *)
(* with its header, the number of data bytes that follow it and the number *)
(* of padding bytes after them.  In the steps of StreamingHDU the variable *)
(* a holds the file named by the first argument of the constructor and b   *)
(* the header object given as the second.  A card value here is a bool, an *)
(* int or a str, and a card comment a string.                              *)
(***************************************************************************)
BoolValue(v) == [t |-> "bool", n |-> IF v THEN 1 ELSE 0, s |-> <<>>]

\* The size of a FITS block and of a header of up to 35 cards.
BlockSize == 2880

\* 'NAXIS' + str(n), and 'NAXIS' for n = 0.
AxisKeyword(n) ==
    CASE n = 0 -> "NAXIS"
      [] n = 1 -> "NAXIS1"
      [] n = 2 -> "NAXIS2"
      [] n = 3 -> "NAXIS3"
      [] n = 4 -> "NAXIS4"

\* keyword in header
Header_contains(header, keyword) ==
    \E i \in 1..Len(header) : header[i].keyword = keyword

\* header.get(keyword, default)
Header_get_default(header, keyword, default) ==
    IF Header_contains(header, keyword) THEN Header_get(header, keyword)
    ELSE default

\* The position of the first card of a keyword that the header contains.
Header_index(header, keyword) ==
    CHOOSE i \in 1..Len(header) :
        /\ header[i].keyword = keyword
        /\ \A j \in 1..(i - 1) : header[j].keyword # keyword

\* header.update(keyword, value, comment, after=after): the card of the
\* keyword gets the value and the comment; a header without the keyword
\* gets a new card behind the card of `after`.
Header_update(header, keyword, value, comment, after) ==
    IF Header_contains(header, keyword)
    THEN [header EXCEPT ![Header_index(header, keyword)] =
                            Card(keyword, value, comment)]
    ELSE IF Header_contains(header, after)
    THEN SubSeq(header, 1, Header_index(header, after))
         \o <<Card(keyword, value, comment)>>
         \o SubSeq(header, Header_index(header, after) + 1, Len(header))
    ELSE Append(header, Card(keyword, value, comment))

\* del header[keyword]
Header_del(header, keyword) ==
    SelectSeq(header, LAMBDA card : card.keyword # keyword)

\* The header of PrimaryHDU(): no data.
PrimaryHDU_header ==
    <<Card("SIMPLE", BoolValue(TRUE), "conforms to FITS standard"),
      Card("BITPIX", IntValue(8), "array data type"),
      Card("NAXIS", IntValue(0), "number of array dimensions"),
      Card("EXTEND", BoolValue(TRUE), "")>>

\* One HDU in a file.
FileHDU(header, nbytes, pad) == [header |-> header, nbytes |-> nbytes, pad |-> pad]

\* The file a name refers to: whether it is a GzipFile object, whether it
\* exists, and what it holds.
File(gzip, exists, hdus) == [gzip |-> gzip, exists |-> exists, hdus |-> hdus]

\* os.path.getsize(filename), and the position _File(name, 'append') is at.
RECURSIVE FileSize(_)
FileSize(hdus) ==
    IF hdus = <<>> THEN 0
    ELSE BlockSize + Head(hdus).nbytes + Head(hdus).pad + FileSize(Tail(hdus))

\* self._ffo.tell()
File_tell(file) == FileSize(file.hdus)

\* HDUList([PrimaryHDU()]).writeto(name, 'exception')
HDUList_writeto(file) ==
    File(file.gzip, TRUE, <<FileHDU(PrimaryHDU_header, 0, 0)>>)

\* tmp_hdu._writeheader(self._ffo): the header goes to the end of the file.
BaseHDU_writeheader(file, header) ==
    File(file.gzip, TRUE, Append(file.hdus, FileHDU(header, 0, 0)))

\* self._ffo.write(output): nbytes more data bytes in the last HDU.
File_write(file, nbytes) ==
    [file EXCEPT !.hdus[Len(file.hdus)].nbytes = @ + nbytes]

\* self._ffo.file.write(n * '\0')
File_pad(file, n) ==
    [file EXCEPT !.hdus[Len(file.hdus)].pad = @ + n]

\* _pad_length(stringlen)
pad_length(stringlen) == (BlockSize - (stringlen % BlockSize)) % BlockSize

\* a == 'T' for a card value a (the default of get is the string 'F').
EqualsT(value) == value.t = "str" /\ value.s = <<"T">>

\* The product of header['NAXIS' + str(idx + 1)] for idx in range(idx, naxis).
RECURSIVE AxesProduct(_, _, _)
AxesProduct(header, idx, naxis) ==
    IF idx >= naxis THEN 1
    ELSE Header_get(header, AxisKeyword(idx + 1)).n
         * AxesProduct(header, idx + 1, naxis)

\* StreamingHDU.size for the header self._header.
StreamingHDU_size(header) ==
    LET naxis == Header_get_default(header, "NAXIS", IntValue(0)).n
        simple == Header_get_default(header, "SIMPLE", StrValue(<<"F">>))
        randomGroups == Header_get_default(header, "GROUPS", StrValue(<<"F">>))
        groups == IF EqualsT(simple) /\ EqualsT(randomGroups) THEN 1 ELSE 0
        size == AxesProduct(header, groups, naxis)
        bitpix == Header_get(header, "BITPIX").n
        gcount == Header_get_default(header, "GCOUNT", IntValue(1)).n
        pcount == Header_get_default(header, "PCOUNT", IntValue(0)).n
    IN  IF naxis > 0 THEN (Abs(bitpix) * gcount * (pcount + size)) \div 8
        ELSE 0


\* header.copy(): a new header object with the cards of the one given.  The
\* heap is the sequence of the header objects, a reference an index into it.
Header_copy(heap, ref) == [heap |-> Append(heap, heap[ref]), ref |-> Len(heap) + 1]

\* Lines 97-114 on a header that has no SIMPLE card, once the update after
\* 'SIMPLE' and the deletion of 'SIMPLE' have gone through.
AsImageExtension(header) ==
    LET image == Header_update(header, "XTENSION",
                               StrValue(<<"I", "M", "A", "G", "E">>),
                               "Image extension", "SIMPLE")
        deleted == Header_del(image, "SIMPLE")
        dim == Header_get(deleted, "NAXIS").n
        counted == IF ~Header_contains(deleted, "PCOUNT")
                   THEN Header_update(deleted, "PCOUNT", IntValue(0),
                                      "number of parameters", AxisKeyword(dim))
                   ELSE deleted
    IN  IF ~Header_contains(deleted, "PCOUNT") /\ ~Header_contains(deleted, "NAXIS")
        THEN [exc |-> "KeyError", header |-> deleted]
        ELSE IF ~Header_contains(counted, "GCOUNT")
        THEN [exc |-> "",
              header |-> Header_update(counted, "GCOUNT", IntValue(1),
                                       "number of groups", "PCOUNT")]
        ELSE [exc |-> "", header |-> counted]

\* What lines 87-114 may leave in self._header, or the exception they
\* raise: the header classes are not part of the sources, and inserting
\* after and deleting a keyword the header does not hold either raises
\* KeyError or does nothing.
StreamingHDU_headers(header, newFile) ==
    IF Header_contains(header, "SIMPLE") \/ newFile
    THEN {[exc |-> "", header |-> header]}
    ELSE {[exc |-> "KeyError", header |-> header], AsImageExtension(header)}

\* StreamingHDU.__init__ from line 116 on, self._header being settled.
StreamingHDU_open(file, header) ==
    LET written == BaseHDU_writeheader(file, header)
        size == StreamingHDU_size(header)
    IN  [self |-> [cls |-> "StreamingHDU",
                   _header |-> header,
                   _data_loaded |-> FALSE,
                   _hdrLoc |-> File_tell(file),
                   _datLoc |-> File_tell(written),
                   _size |-> size,
                   writeComplete |-> IF size # 0 THEN 0 ELSE 1],
         file |-> written]

\* Mutant: no default primary HDU is written to a new file.
StreamingHDU_NoDefaultPrimary(file, header) ==
    LET copy == Header_copy(<<header>>, 1)
        newFile == ~file.exists \/ FileSize(file.hdus) = 0
    IN  IF file.gzip
        THEN {[self |-> Raised("TypeError"), file |-> file, header |-> header]}
        ELSE {IF h.exc # ""
              THEN [self |-> Raised(h.exc), file |-> file,
                    header |-> [copy.heap EXCEPT ![copy.ref] = h.header][1]]
              ELSE [self |-> StreamingHDU_open(file, h.header).self,
                    file |-> StreamingHDU_open(file, h.header).file,
                    header |-> [copy.heap EXCEPT ![copy.ref] = h.header][1]] :
              h \in StreamingHDU_headers(copy.heap[copy.ref], newFile)}

\* StreamingHDU(name, header): the outcomes of the constructor, each with
\* the object built (or the exception), the file and the caller's header
\* as they are afterwards.
StreamingHDU(file, header) ==
    LET copy == Header_copy(<<header>>, 1)
        newFile == ~file.exists \/ FileSize(file.hdus) = 0
        prepared == IF ~Header_contains(copy.heap[copy.ref], "SIMPLE") /\ newFile
                    THEN HDUList_writeto(file)
                    ELSE file
    IN  IF file.gzip
        THEN {[self |-> Raised("TypeError"), file |-> file, header |-> header]}
        ELSE {IF h.exc # ""
              THEN [self |-> Raised(h.exc), file |-> prepared,
                    header |-> [copy.heap EXCEPT ![copy.ref] = h.header][1]]
              ELSE [self |-> StreamingHDU_open(prepared, h.header).self,
                    file |-> StreamingHDU_open(prepared, h.header).file,
                    header |-> [copy.heap EXCEPT ![copy.ref] = h.header][1]] :
              h \in StreamingHDU_headers(copy.heap[copy.ref], newFile)}

\* _ImageBaseHDU.NumCode: the dtype name for each BITPIX.
NumCode ==
    (8 :> "uint8") @@ (16 :> "int16") @@ (32 :> "int32") @@ (64 :> "int64")
    @@ (-32 :> "float32") @@ (-64 :> "float64")

\* The names bound in the module streaming.py: those it imports and the
\* class it defines.
ModuleNames ==
    {"gzip", "os", "_File", "_BaseHDU", "HDUList", "PrimaryHDU", "_pad_length",
     "StreamingHDU"}

\* The array given to write: its size in bytes, the name of its dtype and
\* the first character of dtype.str.
Data(nbytes, dtype, order) == [nbytes |-> nbytes, dtype |-> dtype, order |-> order]

\* What a call returned, where it may have raised instead.
Returned(value) == [cls |-> "Returned", value |-> value]

\* Mutant: a write is refused only when the data would overflow the stream.
StreamingHDU_refuses_OverflowOnly(self, file, data) ==
    File_tell(file) - self._datLoc + data.nbytes > self._size

\* Mutant: a write is refused only once the stream is complete.
StreamingHDU_refuses_CompleteOnly(self, file, data) == self.writeComplete = 1

\* The condition of line 172: the stream is complete or the data would
\* overflow it.
StreamingHDU_refuses(self, file, data) ==
    LET curDataSize == File_tell(file) - self._datLoc
    IN  self.writeComplete = 1 \/ curDataSize + data.nbytes > self._size

\* StreamingHDU.write from line 176 on, were the name _ImageBaseHDU bound.
StreamingHDU_write_checked(self, file, data) ==
    LET written == File_write(file, data.nbytes)
        full == File_tell(written) - self._datLoc = self._size
    IN  IF NumCode[Header_get(self._header, "BITPIX").n] # data.dtype
        THEN [self |-> self, file |-> file, value |-> Raised("TypeError")]
        ELSE IF full
        THEN [self |-> [self EXCEPT !.writeComplete = 1],
              file |-> File_pad(written, pad_length(self._size)),
              value |-> Returned(1)]
        ELSE [self |-> self, file |-> written,
              value |-> Returned(self.writeComplete)]

\* StreamingHDU.write(data): the object and the file afterwards and what
\* the call returned or raised.
StreamingHDU_write(self, file, data) ==
    IF StreamingHDU_refuses(self, file, data)
    THEN [self |-> self, file |-> file, value |-> Raised("IOError")]
    ELSE IF "_ImageBaseHDU" \notin ModuleNames
    THEN [self |-> self, file |-> file, value |-> Raised("NameError")]
    ELSE StreamingHDU_write_checked(self, file, data)


(***************************************************************************)
(* The files, headers and arrays tried with StreamingHDU, and its steps.   *)
(***************************************************************************)
\* The largest number of axes and the largest axis length of a header.
MaxAxes == 2

MaxAxisLen == 2

\* The cards a header may start with: a primary header's, an image
\* extension's, or neither.
FirstCards ==
    {<<Card("SIMPLE", BoolValue(TRUE), "")>>,
     <<Card("XTENSION", StrValue(<<"I", "M", "A", "G", "E">>), "")>>,
     <<>>}

\* The NAXIS cards for the axis lengths given.
AxisCards(lengths) ==
    <<Card("NAXIS", IntValue(Len(lengths)), "")>>
    \o [i \in 1..Len(lengths) |-> Card(AxisKeyword(i), IntValue(lengths[i]), "")]

\* The axis lengths tried.
AxisLengths == UNION {[1..n -> 0..MaxAxisLen] : n \in 0..MaxAxes}

\* The PCOUNT and GCOUNT cards of an extension, or none.
CountCards ==
    {<<>>, <<Card("PCOUNT", IntValue(0), ""), Card("GCOUNT", IntValue(1), "")>>}

\* The headers given to StreamingHDU: all have BITPIX, and the NAXIS cards
\* of a header with axes are complete.
StreamHeaders ==
    {first \o <<Card("BITPIX", IntValue(bitpix), "")>> \o axes \o counts :
        first \in FirstCards, bitpix \in {8, 16},
        axes \in {AxisCards(l) : l \in AxisLengths} \cup {<<>>},
        counts \in CountCards}

\* The files: one that does not exist, an empty one, one that holds a
\* primary HDU, and a GzipFile object.
StreamFiles ==
    {File(FALSE, FALSE, <<>>), File(FALSE, TRUE, <<>>),
     File(FALSE, TRUE, <<FileHDU(PrimaryHDU_header, 0, 0)>>),
     File(TRUE, TRUE, <<FileHDU(PrimaryHDU_header, 0, 0)>>)}

\* The number of data bytes written so far to the stream.
BytesWritten(self, file) == File_tell(file) - self._datLoc - file.hdus[Len(file.hdus)].pad

\* The arrays given to write: empty, one byte, what the stream still takes
\* and one byte more, of two dtypes in either byte order.
StreamData(self, file) ==
    {Data(n, dtype, order) :
        n \in {0, 1, self._size - BytesWritten(self, file),
               self._size - BytesWritten(self, file) + 1},
        dtype \in {"uint8", "int16"}, order \in {">", "<"}}

\* result = StreamingHDU(a, b)
NewStreamingHDU ==
    /\ pc = "new"
    /\ cls = "StreamingHDU"
    /\ \E built \in StreamingHDU(a, b) :
          /\ result' = built.self
          /\ a' = built.file
          /\ b' = built.header
    /\ pc' = "built"
    /\ UNCHANGED <<cls, cfg, ret>>

\* ret = result.write(data), or the exception the call raised
Write ==
    /\ pc = "built"
    /\ result.cls = "StreamingHDU"
    /\ \E data \in StreamData(result, a) :
          LET done == StreamingHDU_write(result, a, data)
          IN  /\ result' = done.self
              /\ a' = done.file
              /\ ret' = [op |-> "write", data |-> data, value |-> done.value]
    /\ UNCHANGED <<cls, b, cfg, pc>>

\* result.close()
Close ==
    /\ pc = "built"
    /\ result.cls = "StreamingHDU"
    /\ pc' = "closed"
    /\ UNCHANGED <<cls, a, b, cfg, result, ret>>

\* A file and a header to build a StreamingHDU from.
InitStream ==
    /\ cls = "StreamingHDU"
    /\ a \in StreamFiles
    /\ b \in StreamHeaders
    /\ cfg = DefaultCfg
    /\ result = Unbuilt
    /\ ret = NoRet
    /\ pc = "new"

NextStream ==
    \/ NewStreamingHDU
    \/ Write
    \/ Close

SpecStream == InitStream /\ [][NextStream]_vars


(***************************************************************************)
(* Properties of StreamingHDU.                                             *)
(***************************************************************************)
\* The step is a call of write on the stream with the array ret'.data.
WriteStep ==
    /\ pc = "built" /\ pc' = "built"
    /\ result.cls = "StreamingHDU"
    /\ ret'.op = "write"

\* C21: a write whose byte count added to the bytes already written exceeds
\* the data size the header declares raises IOError and writes nothing: the
\* file, the bytes written and writeComplete are as before; and the bytes
\* written never exceed the declared size.
C21_OverflowRaisesAndWritesNothing ==
    /\ [][(WriteStep /\ BytesWritten(result, a) + ret'.data.nbytes > result._size)
             => /\ ret'.value = Raised("IOError")
                /\ a' = a
                /\ result' = result]_vars
    /\ [](result.cls = "StreamingHDU" => BytesWritten(result, a) <= result._size)

\* C21 witness: an incomplete stream of four declared bytes was given five
\* and the call raised IOError.
C21_Witness ==
    /\ pc = "built"
    /\ result.cls = "StreamingHDU"
    /\ result._size = 4
    /\ result.writeComplete = 0
    /\ ret.op = "write"
    /\ ret.data.nbytes = 5
    /\ ret.value = Raised("IOError")
    /\ BytesWritten(result, a) = 0


\* C22: once writeComplete is set it stays set, and every write call from
\* then on raises IOError and leaves the file as it is.
C22_CompleteStreamAcceptsNothing ==
    [][(result.cls = "StreamingHDU" /\ result.writeComplete = 1)
          => /\ result'.cls = "StreamingHDU"
             /\ result'.writeComplete = 1
             /\ WriteStep => (ret'.value = Raised("IOError") /\ a' = a)]_vars

\* C22 witness: a stream that is complete was given an array, an empty one
\* even, and the call raised IOError.
C22_Witness ==
    /\ pc = "built"
    /\ result.cls = "StreamingHDU"
    /\ result.writeComplete = 1
    /\ ret.op = "write"
    /\ ret.data.nbytes = 0
    /\ ret.value = Raised("IOError")


\* The file does not exist or is empty.
NewFile(file) == ~file.exists \/ file.hdus = <<>>

\* The step is a call of the constructor that built the object.
BuildStep ==
    /\ pc = "new" /\ pc' = "built"
    /\ cls = "StreamingHDU"
    /\ result'.cls = "StreamingHDU"

\* C23: when StreamingHDU is built on a file that does not exist or is
\* empty from a header without SIMPLE, the file afterwards holds a default
\* primary HDU first and the header given, as given, as the first
\* extension after it.
C23_DefaultPrimaryBeforeExtension ==
    [][(BuildStep /\ NewFile(a) /\ ~Header_contains(b, "SIMPLE"))
          => /\ Len(a'.hdus) = 2
             /\ a'.hdus[1] = FileHDU(PrimaryHDU_header, 0, 0)
             /\ a'.hdus[2].header = b
             /\ result'._hdrLoc = BlockSize
             /\ result'._datLoc = 2 * BlockSize]_vars

\* C23 witness: a StreamingHDU was built from a header with neither SIMPLE
\* nor XTENSION and the file holds two HDUs, the default primary HDU
\* without data and then the header as given (on a file that held an HDU
\* already the header written would have got an XTENSION card).
C23_Witness ==
    /\ pc = "built"
    /\ result.cls = "StreamingHDU"
    /\ Len(a.hdus) = 2
    /\ a.hdus[1].header = PrimaryHDU_header
    /\ ~Header_contains(b, "SIMPLE")
    /\ ~Header_contains(b, "XTENSION")
    /\ a.hdus[2].header = b
    /\ result._datLoc = 2 * BlockSize


\* C24: when StreamingHDU is built on a file that holds data already from a
\* header with SIMPLE, the header written is an image extension header
\* (XTENSION = 'IMAGE' and no SIMPLE, PCOUNT and GCOUNT present) and goes to
\* the end of the file, behind what the file held; the caller's header is
\* left as it was.
C24_PrimaryHeaderBecomesImageExtension ==
    [][(BuildStep /\ ~NewFile(a) /\ Header_contains(b, "SIMPLE"))
          => LET written == a'.hdus[Len(a'.hdus)].header
             IN  /\ Len(a'.hdus) = Len(a.hdus) + 1
                 /\ SubSeq(a'.hdus, 1, Len(a.hdus)) = a.hdus
                 /\ ~Header_contains(written, "SIMPLE")
                 /\ Header_get(written, "XTENSION") = StrValue(<<"I", "M", "A", "G", "E">>)
                 /\ Header_contains(written, "PCOUNT")
                 /\ Header_contains(written, "GCOUNT")
                 /\ b' = b]_vars

\* What the constructor does there: the header is appended as given, SIMPLE
\* card included, and the caller's header is left as it was.
C24_PrimaryHeaderAppendedAsGiven ==
    [][(BuildStep /\ ~NewFile(a) /\ Header_contains(b, "SIMPLE"))
          => /\ a'.hdus = Append(a.hdus, FileHDU(b, 0, 0))
             /\ result'._header = b
             /\ b' = b]_vars


\* C29: after construction and after any write calls writeComplete is set
\* exactly when the data bytes written equal the size computed from the
\* header, and a write call that is given data the stream takes (it fits
\* and has the dtype of BITPIX) returns the value the flag then has.
C29_FlagSetWhenFullAndReturned ==
    /\ [](result.cls = "StreamingHDU" =>
             (result.writeComplete = 1 <=> BytesWritten(result, a) = result._size))
    /\ [][(/\ WriteStep
           /\ result.writeComplete = 0
           /\ BytesWritten(result, a) + ret'.data.nbytes <= result._size
           /\ NumCode[Header_get(result._header, "BITPIX").n] = ret'.data.dtype)
             => ret'.value = Returned(result'.writeComplete)]_vars

\* The part of C29 that holds: the flag is set exactly when the data bytes
\* written equal the declared size.
C29_FlagSetWhenFull ==
    result.cls = "StreamingHDU" =>
        (result.writeComplete = 1 <=> BytesWritten(result, a) = result._size)


(***************************************************************************)
(* Further properties of HeaderDiff.                                       *)
(***************************************************************************)
\* The i-th value of a keyword as the comparison reads it: a string value
\* without its trailing blanks when ignore_blanks is set.
ComparedValue(header, keyword, i) ==
    LET value == NthValue(header, keyword, i)
    IN  IF cfg.ignore_blanks /\ value.t = "str"
        THEN StrValue(rstrip(value.s)) ELSE value

\* The i-th comment of a keyword.
NthComment(header, keyword, i) ==
    SelectSeq(header, LAMBDA card : card.keyword = keyword)[i].comment

\* The keywords of both headers that ignore_keywords does not exclude.
ComparedKeywords ==
    {k \in Keywords(a) \cap Keywords(b) : ~IgnoredBy(k, cfg.ignore_keywords)}

C25_WithinTolerance ==
    /\ Built /\ cls = "HeaderDiff"
    /\ "NAXIS" \in ComparedKeywords
    /\ cfg.tolerance # Zero
    /\ NthValue(a, "NAXIS", 1) = FloatValue(2)
    /\ NthValue(b, "NAXIS", 1) = FloatValue(3)
    /\ "NAXIS" \notin DOMAIN result.diff_keyword_values


\* C26: the comments of a keyword of both headers that is not ignored are
\* compared position by position, whatever its values are, unless
\* ignore_comments holds '*', the keyword, or a wildcard pattern matching
\* it: diff_keyword_comments has the keyword exactly when its comments are
\* not skipped and differ at some position, with the pair at each differing
\* position and the placeholder elsewhere; and the value and duplicate
\* count differences are what they are with no comment ignored.
C26_CommentsComparedUnlessIgnored ==
    (Built /\ cls = "HeaderDiff") =>
        /\ \A k \in ComparedKeywords :
              LET n == Min(Count(a, k), Count(b, k))
                  skipped == \/ "*" \in cfg.ignore_comments
                             \/ k \in cfg.ignore_comments
                             \/ \E pattern \in cfg.ignore_comments :
                                   has_magic(pattern) /\ fnmatch(k, pattern)
                  differs(i) == NthComment(a, k, i) # NthComment(b, k, i)
              IN  /\ k \in DOMAIN result.diff_keyword_comments
                        <=> (~skipped /\ \E i \in 1..n : differs(i))
                  /\ k \in DOMAIN result.diff_keyword_comments =>
                        /\ Len(result.diff_keyword_comments[k]) = n
                        /\ \A i \in 1..n :
                              result.diff_keyword_comments[k][i] =
                                  IF differs(i)
                                  THEN <<NthComment(a, k, i), NthComment(b, k, i)>>
                                  ELSE <<>>
        /\ LET plain == HeaderDiff(a, b, cfg.ignore_keywords, {}, cfg.tolerance,
                                   cfg.ignore_blanks)
           IN  /\ result.diff_keyword_values = plain.diff_keyword_values
               /\ result.diff_duplicate_keywords = plain.diff_duplicate_keywords

\* C26 witness: the values of NAXIS agree and its comments differ, and the
\* comment difference is reported.
C26_Witness ==
    /\ Built /\ cls = "HeaderDiff"
    /\ "NAXIS" \in ComparedKeywords
    /\ "NAXIS" \notin DOMAIN result.diff_keyword_values
    /\ "NAXIS" \in DOMAIN result.diff_keyword_comments
    /\ result.diff_keyword_comments["NAXIS"][1] # <<>>

\* C26 witness of the skip: the comments of NAXIS differ and a wildcard
\* pattern of ignore_comments matches NAXIS; the comment difference is not
\* reported, the value and the duplicate count differences are.
C26_Skipped ==
    /\ Built /\ cls = "HeaderDiff"
    /\ "NAXIS" \in ComparedKeywords
    /\ cfg.ignore_comments = {"NAXIS*"}
    /\ NthComment(a, "NAXIS", 1) # NthComment(b, "NAXIS", 1)
    /\ "NAXIS" \notin DOMAIN result.diff_keyword_comments
    /\ "NAXIS" \in DOMAIN result.diff_keyword_values
    /\ "NAXIS" \in DOMAIN result.diff_duplicate_keywords


(***************************************************************************)
(* Further properties of the data diffs.                                   *)
(***************************************************************************)
\* The positions (from 1) where two arrays of the same shape hold unequal
\* elements.
UnequalPositions(x, y) == {p \in 1..Len(x.flat) : x.flat[p] # y.flat[p]}

\* C27: for two arrays of the same shape of which neither is floating point
\* or complex, diff_total of ImageDataDiff is the number of positions where
\* the elements are unequal, whatever the tolerance given.
C27_IntegersComparedExactly ==
    (Built /\ cls = "ImageDataDiff" /\ a.shape = b.shape
           /\ a.dtype \notin {"float", "complex"}
           /\ b.dtype \notin {"float", "complex"}) =>
        result.diff_total = Cardinality(UnequalPositions(a, b))

\* C27 witness: two integer arrays with 1 against 2 at some position were
\* compared under the tolerance 1, which covers that deviation, and the
\* position is counted.
C27_Witness ==
    /\ Built /\ cls = "ImageDataDiff" /\ a.shape = b.shape
    /\ a.dtype = "int" /\ b.dtype = "int"
    /\ cfg.tolerance = Rat(1, 1)
    /\ \E p \in 1..Len(a.flat) : a.flat[p] = 1 /\ b.flat[p] = 2
    /\ \A p \in 1..Len(a.flat) : Abs(a.flat[p] - b.flat[p]) <= Abs(b.flat[p])
    /\ result.diff_total > 0
    /\ result.diff_total = Cardinality(UnequalPositions(a, b))


\* C28: the constructor of TableDataDiff builds the object for every two
\* tables, tables without rows included, and diff_ratio is diff_total
\* divided by the number of rows times the number of columns of a.
C28_TableDiffAlwaysBuilt ==
    (Built /\ cls = "TableDataDiff") =>
        /\ result.cls = "TableDataDiff"
        /\ a.nrows * Len(a.columns) # 0 =>
              result.diff_ratio.num * (a.nrows * Len(a.columns))
                  = result.diff_total * result.diff_ratio.den

\* What holds of diff_ratio: it is that quotient whenever the object is
\* built from a table with rows.
C28_RatioWhenBuilt ==
    (Built /\ cls = "TableDataDiff" /\ result.cls = "TableDataDiff"
           /\ a.nrows * Len(a.columns) # 0) =>
        result.diff_ratio.num * (a.nrows * Len(a.columns))
            = result.diff_total * result.diff_ratio.den

\* The constructor raises exactly for the tables without rows, unless '*'
\* is among ignore_fields.
C28_RaisesWithoutRows ==
    (Built /\ cls = "TableDataDiff") =>
        (result.cls = "Raised" <=> (a.nrows = 0 /\ "*" \notin cfg.ignore_fields))


\* A pair with its two components exchanged; the empty tuple (no pair, or
\* the placeholder) stays as it is.
Mirror(pair) == IF pair = <<>> THEN <<>> ELSE <<pair[2], pair[1]>>

\* A dict of lists of pairs is another with every pair exchanged.
MirroredLists(d, e) ==
    /\ DOMAIN d = DOMAIN e
    /\ \A k \in DOMAIN d :
          /\ Len(d[k]) = Len(e[k])
          /\ \A i \in 1..Len(d[k]) : e[k][i] = Mirror(d[k][i])

\* C30: under tolerance 0 HeaderDiff(b, a) mirrors HeaderDiff(a, b): the
\* same verdict of identical and the same common_keywords, and the keyword
\* count pair, the pair of keyword lists found on one side only, every
\* duplicate count pair and every value or comment pair with its two
\* components exchanged.
C30_SwappedInputsMirror ==
    (Built /\ cls = "HeaderDiff" /\ cfg.tolerance = Zero) =>
        LET swapped == HeaderDiff(b, a, cfg.ignore_keywords, cfg.ignore_comments,
                                  cfg.tolerance, cfg.ignore_blanks)
        IN  /\ identical(swapped) = identical(result)
            /\ swapped.common_keywords = result.common_keywords
            /\ swapped.diff_keyword_count = Mirror(result.diff_keyword_count)
            /\ swapped.diff_keywords = Mirror(result.diff_keywords)
            /\ DOMAIN swapped.diff_duplicate_keywords
                  = DOMAIN result.diff_duplicate_keywords
            /\ \A k \in DOMAIN result.diff_duplicate_keywords :
                  swapped.diff_duplicate_keywords[k]
                      = Mirror(result.diff_duplicate_keywords[k])
            /\ MirroredLists(result.diff_keyword_values, swapped.diff_keyword_values)
            /\ MirroredLists(result.diff_keyword_comments,
                             swapped.diff_keyword_comments)

\* C30 witness: under tolerance 0 the first header has NAXIS twice and the
\* second once with another value and another comment; the counts, the
\* duplicate counts, a value pair and a comment pair are reported.
C30_Witness ==
    /\ Built /\ cls = "HeaderDiff" /\ cfg.tolerance = Zero
    /\ cfg.ignore_keywords = {} /\ cfg.ignore_comments = {}
    /\ result.diff_keyword_count = <<2, 1>>
    /\ "NAXIS" \in DOMAIN result.diff_duplicate_keywords
    /\ "NAXIS" \in DOMAIN result.diff_keyword_values
    /\ "NAXIS" \in DOMAIN result.diff_keyword_comments
    /\ result.diff_duplicate_keywords["NAXIS"] = <<2, 1>>
    /\ result.diff_keyword_values["NAXIS"] = <<<<IntValue(2), IntValue(3)>>>>

\* C30 witness of the keyword lists: under tolerance 0 a keyword is in the
\* first header only and none in the second only.
C30_KeywordsOnOneSide ==
    /\ Built /\ cls = "HeaderDiff" /\ cfg.tolerance = Zero
    /\ Len(result.diff_keywords) = 2
    /\ result.diff_keywords[1] # <<>>
    /\ result.diff_keywords[2] = <<>>

====
